---- MODULE Spec2Model ----
(***************************************************************************)
(* Verification model of projectloupe's thumbnail cache                    *)
(* (crates/thumbnail-cache): the byte-budgeted LRU cache (lru.rs) and the  *)
(* tiered cache manager (cache.rs) with its derivation pipeline            *)
(* (generate.rs) and cache-key deriver (lib.rs), and the prefetch          *)
(* scheduler (prefetch.rs).                                                *)
(*                                                                         *)
(* The specifications share the operators translated from the source:     *)
(*   SpecLru      one LruCache<String, Vec<u8>> driven through its public *)
(*                API (insert / get / clear) with caller-chosen sizes;     *)
(*   Spec         one ThumbnailCache (three LRU instances + three disk     *)
(*                directories) driven through get / get_or_generate /      *)
(*                clear_all, each call run to completion;                  *)
(*   SpecLocked   one LruCache called from two threads, the statements of  *)
(*                the calls interleaved as far as its mutex allows;        *)
(*   SpecAll      either of SpecLru and Spec, chosen in the initial state; *)
(*   SpecBatch    one ThumbnailCache running generate_batch, the items of  *)
(*                a batch interleaved step by step;                        *)
(*   SpecSwatch   extract_color_swatch and get_color_swatches;             *)
(*   SpecPrefetch one PrefetchScheduler called from several threads, the   *)
(*                callers and the workers interleaved step by step;        *)
(*   SpecChunks   one PrefetchScheduler called from one thread, with a job *)
(*                of two chunks in which two files fail;                   *)
(*   SpecViewports  as SpecChunks, with jobs whose viewport is inverted or *)
(*                beyond the file list;                                    *)
(*   SpecCalc     the pure functions of the crate applied to arguments     *)
(*                drawn from bounded sets;                                 *)
(*   SpecRace     one ThumbnailCache with a get_or_generate and a          *)
(*                clear_all in flight, interleaved step by step;           *)
(*   SpecPair     one ThumbnailCache with two get_or_generate calls for    *)
(*                one path in flight, interleaved step by step.            *)
(* SpecPrefetchFair and SpecChunksFair add the fair scheduling of threads. *)
(***************************************************************************)
EXTENDS Integers, Sequences, FiniteSets, TLC

VARIABLES
    cache,      \* SpecLru: the LruCacheInner behind the mutex (lru.rs:20-25)
    largest,    \* SpecLru history: largest byte_size passed to insert so far
    last,       \* SpecLru history: the last API call, its arguments and result
    scen,       \* SpecLru history: progress along the recency scenario
    config,     \* Spec: the ThumbnailConfig budgets (lib.rs:33-41)
    mem,        \* Spec: tier -> LruCacheInner (cache.rs:22-24)
    disk,       \* Spec: tier -> (cache key -> file bytes) (cache.rs:77-79)
    done,       \* Spec history: the last manager call, arguments and result
    batch,      \* SpecBatch: the generate_batch call in progress (cache.rs:139-180)
    swatch,     \* SpecSwatch history: the last swatch call and its result
    current_job,\* SpecPrefetch: the scheduler's job slot and who holds its mutex
    jobs,       \* SpecPrefetch: job id -> cancel flag, progress, worker state
    callers,    \* SpecPrefetch: caller thread -> position in its current call
    pscen,      \* SpecPrefetch history: progress along the scenarios of the
                \* scheduler's tests, with what get_progress returned
    polled,     \* SpecPrefetch history: the is_running call made in the last
                \* step, with the value it returned
    calc,       \* SpecCalc history: the last call of a pure function, its
                \* arguments and result
    race        \* SpecRace, SpecPair, SpecLocked: the calls in flight, thread
                \* -> position

vars == <<cache, largest, last, scen, config, mem, disk, done, batch, swatch,
          current_job, jobs, callers, pscen, polled, calc, race>>
lruVars == <<cache, largest, last, scen>>
mgrVars == <<config, mem, disk, done>>
calcVars == <<calc, race>>
batchVars == <<batch, swatch, calcVars>>
prefetchVars == <<current_job, jobs, callers, pscen, polled>>

(***************************************************************************)
(* Bounds of the model.                                                    *)
(***************************************************************************)
\* access_counter is a u64; operations that advance it are disabled at the cap
MaxCounter == 5
\* the longest list of paths passed to generate_batch and get_color_swatches
MaxBatch == 2
\* start_prefetch is disabled once this many jobs have been started
MaxJobs == 2
\* the same for the jobs of two chunks
MaxChunkJobs == 1
\* manager calls are disabled once the three memory caches together have seen
\* this many logical accesses since the last clear_all
MaxAccesses == 3
\* usize::MAX of the model: where saturating_add / saturating_sub saturate
UsizeMax == 1000
\* the longest file list whose priority order is computed
MaxFiles == 10

(***************************************************************************)
(* Option<T>: None is the empty set, Some(v) the singleton.                *)
(***************************************************************************)
None == {}
Some(v) == {v}
IsSome(o) == o # {}
Unwrap(o) == CHOOSE v \in o : TRUE

Max(a, b) == IF a >= b THEN a ELSE b

(***************************************************************************)
(* usize arithmetic (lru.rs:110-114, 143).                                 *)
(***************************************************************************)
saturating_add(a, b) == IF a + b > UsizeMax THEN UsizeMax ELSE a + b
saturating_sub(a, b) == IF a < b THEN 0 ELSE a - b

(***************************************************************************)
(* LruCacheInner (lru.rs:20-25, 83-153).  data maps a key to the tuple     *)
(* (value, byte_size, access_time), here a record.                         *)
(***************************************************************************)
EmptyMap == [k \in {} |-> 0]

LruCache_new(max_bytes) ==
    [data |-> EmptyMap, total_bytes |-> 0, max_bytes |-> max_bytes,
     access_counter |-> 0]

\* HashMap::remove
MapRemove(m, k) == [x \in (DOMAIN m) \ {k} |-> m[x]]
\* HashMap::insert
MapInsert(m, k, e) == [x \in (DOMAIN m) \cup {k} |-> IF x = k THEN e ELSE m[x]]

\* Mutant of LruCache_get: the hit is returned but the entry's access time is
\* not stamped (lru.rs:95-97 dropped).
LruCache_get_NoStamp(c, key) ==
    IF key \in DOMAIN c.data
    THEN [c   |-> [c EXCEPT !.access_counter = c.access_counter + 1],
          ret |-> Some(c.data[key].value)]
    ELSE [c |-> c, ret |-> None]

\* lru.rs:84-103: on a hit the counter advances and stamps the entry
LruCache_get(c, key) ==
    IF key \in DOMAIN c.data
    THEN LET counter == c.access_counter + 1
         IN [c   |-> [c EXCEPT !.access_counter = counter,
                               !.data[key].access_time = counter],
             ret |-> Some(c.data[key].value)]
    ELSE [c |-> c, ret |-> None]

\* lru.rs:131-139: the keys whose access_time is the minimum.  The loop keeps
\* the first such key in HashMap iteration order; access times are distinct
\* in every state reached here, so the set is a singleton.
OldestKeys(c) ==
    {k \in DOMAIN c.data :
        \A j \in DOMAIN c.data : c.data[k].access_time <= c.data[j].access_time}

\* Mutant of evict_lru: the entry with the greatest access_time is removed
\* (`>` in place of `<` at lru.rs:135, starting from 0).
evict_lru_Newest(c) ==
    IF DOMAIN c.data = {}
    THEN c
    ELSE LET key == CHOOSE k \in DOMAIN c.data :
                        \A j \in DOMAIN c.data :
                            c.data[k].access_time >= c.data[j].access_time
         IN [c EXCEPT !.data = MapRemove(c.data, key),
                      !.total_bytes =
                          saturating_sub(c.total_bytes, c.data[key].byte_size)]

\* lru.rs:125-146
evict_lru(c) ==
    IF DOMAIN c.data = {}
    THEN c
    ELSE LET key == CHOOSE k \in OldestKeys(c) : TRUE
         IN [c EXCEPT !.data = MapRemove(c.data, key),
                      !.total_bytes =
                          saturating_sub(c.total_bytes, c.data[key].byte_size)]

\* Mutant of EvictWhileOver: `if` in place of `while`, one eviction at most.
EvictOnceIfOver(c) ==
    IF c.total_bytes > c.max_bytes /\ DOMAIN c.data # {}
    THEN evict_lru(c)
    ELSE c

\* lru.rs:119-122: while total_bytes > max_bytes && !data.is_empty()
RECURSIVE EvictWhileOver(_)
EvictWhileOver(c) ==
    IF c.total_bytes > c.max_bytes /\ DOMAIN c.data # {}
    THEN EvictWhileOver(evict_lru(c))
    ELSE c

\* Mutant of LruCache_insert: the advanced counter stamps the entry but is
\* not stored (lru.rs:106 computes access_counter + 1 into a local).
LruCache_insert_NoCount(c, key, value, byte_size) ==
    LET counter == c.access_counter + 1
        total   == IF key \in DOMAIN c.data
                   THEN saturating_add(
                            saturating_sub(c.total_bytes, c.data[key].byte_size),
                            byte_size)
                   ELSE saturating_add(c.total_bytes, byte_size)
        entry   == [value |-> value, byte_size |-> byte_size,
                    access_time |-> counter]
    IN EvictWhileOver([c EXCEPT !.total_bytes = total,
                                !.data = MapInsert(c.data, key, entry)])

\* Mutant of LruCache_insert: the size of the entry being replaced is not
\* subtracted (the branch of lru.rs:109-112 dropped).
LruCache_insert_NoSubtract(c, key, value, byte_size) ==
    LET counter == c.access_counter + 1
        entry   == [value |-> value, byte_size |-> byte_size,
                    access_time |-> counter]
    IN EvictWhileOver([c EXCEPT !.access_counter = counter,
                                !.total_bytes =
                                    saturating_add(c.total_bytes, byte_size),
                                !.data = MapInsert(c.data, key, entry)])

\* lru.rs:105-123
LruCache_insert(c, key, value, byte_size) ==
    LET counter == c.access_counter + 1
        total   == IF key \in DOMAIN c.data
                   THEN saturating_add(
                            saturating_sub(c.total_bytes, c.data[key].byte_size),
                            byte_size)
                   ELSE saturating_add(c.total_bytes, byte_size)
        entry   == [value |-> value, byte_size |-> byte_size,
                    access_time |-> counter]
    IN EvictWhileOver([c EXCEPT !.access_counter = counter,
                                !.total_bytes = total,
                                !.data = MapInsert(c.data, key, entry)])

\* Mutant of LruCache_clear: the counter is left as it was (lru.rs:151
\* dropped).
LruCache_clear_KeepsCounter(c) ==
    [c EXCEPT !.data = EmptyMap, !.total_bytes = 0]

\* lru.rs:148-152
LruCache_clear(c) ==
    [c EXCEPT !.data = EmptyMap, !.total_bytes = 0, !.access_counter = 0]

\* lru.rs:56-74
total_bytes(c) == c.total_bytes
max_bytes(c) == c.max_bytes
len(c) == Cardinality(DOMAIN c.data)
is_empty(c) == len(c) = 0

(***************************************************************************)
(* Result<T>: Ok(v) or Err(e), e naming the anyhow error raised.           *)
(***************************************************************************)
Ok(v) == [ok |-> TRUE, v |-> <<v>>, err |-> "", context |-> <<>>]
Err(e) == [ok |-> FALSE, v |-> <<>>, err |-> e, context |-> <<>>]
OkValue(r) == r.v[1]
\* anyhow's with_context: wraps an error in one more layer of context, leaves
\* a success alone
with_context(r, msg) == IF r.ok THEN r ELSE [r EXCEPT !.context = <<msg>> \o @]

(***************************************************************************)
(* ThumbnailTier (generate.rs:14-57).                                      *)
(***************************************************************************)
Tiers == {"micro", "preview", "loupe"}

\* generate.rs:41-46
exiftool_tag(tier) == IF tier = "loupe" THEN "JpgFromRaw" ELSE "PreviewImage"

(***************************************************************************)
(* The source files the cache is asked about, and what the external        *)
(* exiftool process answers for them.  Byte strings are short sequences; a *)
(* byte string decodes as an image iff it starts with the marker 255, and  *)
(* then its second and third byte are the image's width and height.        *)
(***************************************************************************)
SourcePaths == {"a.raw", "./a.raw", "b.raw", "corrupt.raw", "locked.raw",
                "missing.raw"}

\* Mutant of canonicalize: the path is left as it was spelled.
canonicalize_AsSpelled(path) == path

\* Path::canonicalize (lib.rs:63)
canonicalize(path) == IF path = "./a.raw" THEN "a.raw" ELSE path

\* Path::exists (cache.rs:103), fs::metadata (lib.rs:62)
path_exists(path) == canonicalize(path) # "missing.raw"

\* fs::metadata(..).len() and .modified(), the latter in microseconds since
\* the epoch (lib.rs:64-66)
file_size(path) ==
    CASE canonicalize(path) = "a.raw" -> 40
      [] canonicalize(path) = "b.raw" -> 40
      [] OTHER -> 20
modified_time(path) ==
    IF canonicalize(path) = "b.raw" THEN 1700000 ELSE 1600000

\* exiftool -b -<tag> <path> (generate.rs:118-123): exit status and stdout
exiftool(path, tag) ==
    LET f == canonicalize(path)
    IN CASE f = "a.raw" /\ tag = "PreviewImage" ->
                [success |-> TRUE, stdout |-> <<255, 1, 1>>]
         [] f = "a.raw" /\ tag = "JpgFromRaw" ->
                [success |-> TRUE, stdout |-> <<255, 1, 1, 1, 1>>]
         [] f = "b.raw" /\ tag = "PreviewImage" ->
                [success |-> TRUE, stdout |-> <<255, 2, 2>>]
         [] f = "b.raw" /\ tag = "JpgFromRaw" ->
                [success |-> TRUE, stdout |-> <<>>]
         [] f = "corrupt.raw" ->
                [success |-> TRUE, stdout |-> <<0, 7>>]
         [] f = "wide.raw" /\ tag = "PreviewImage" ->
                [success |-> TRUE, stdout |-> <<255, 8, 4>>]
         [] f = "empty.raw" /\ tag = "PreviewImage" ->
                [success |-> TRUE, stdout |-> <<255, 0, 0>>]
         [] OTHER ->
                [success |-> FALSE, stdout |-> <<>>]

(***************************************************************************)
(* Cache key (lib.rs:58-77).  A path is one symbol of the hasher's input;  *)
(* SHA-256 is modelled as a digest that no two inputs share, also in its   *)
(* first 16 bytes.                                                         *)
(***************************************************************************)
\* fs::metadata (lib.rs:62)
fs_metadata(path) ==
    IF ~path_exists(path)
    THEN Err("io: metadata")
    ELSE Ok([len |-> file_size(path), modified |-> modified_time(path)])

\* Duration::as_millis (lib.rs:67), of a duration in microseconds
MicrosPerMilli == 1000
as_millis(duration) == duration \div MicrosPerMilli

\* u64::to_le_bytes and u128::to_le_bytes (lib.rs:71-72)
RECURSIVE to_le_bytes(_, _)
to_le_bytes(n, width) ==
    IF width = 0 THEN <<>>
    ELSE <<n % 256>> \o to_le_bytes(n \div 256, width - 1)

\* Sha256::new, update, finalize (lib.rs:69-74): 32 bytes
Sha256(input) == [bytes |-> 32, of |-> input]

\* hex::encode(&result[..n]) (lib.rs:76), n <= 32: two characters for a byte
hex_encode(digest, n) == [len |-> 2 * n, of |-> digest.of]

\* lib.rs:63-76: the key of a file with the given metadata
key_of_metadata(file_path, metadata) ==
    LET absolute_path == canonicalize(file_path)
        file_size_ == metadata.len
        modified_time_ == as_millis(metadata.modified)
        input == <<absolute_path>> \o to_le_bytes(file_size_, 8)
                                  \o to_le_bytes(modified_time_, 16)
    IN hex_encode(Sha256(input), 16)

generate_cache_key(path) ==
    LET metadata == fs_metadata(path)
    IN IF ~metadata.ok
       THEN metadata
       ELSE Ok(key_of_metadata(path, OkValue(metadata)))

(***************************************************************************)
(* Derivation pipeline (generate.rs:94-170).                               *)
(***************************************************************************)
\* generate.rs:117-136
extract_embedded_jpeg(path, tier) ==
    LET output == exiftool(path, exiftool_tag(tier))
    IN IF ~output.success THEN Err("exiftool failed")
       ELSE IF output.stdout = <<>> THEN Err("No embedded JPEG found")
       ELSE Ok(output.stdout)

\* ImageReader::decode (generate.rs:104-107)
decodes(jpeg_data) == Len(jpeg_data) > 0 /\ jpeg_data[1] = 255

\* resize_image + encode_jpeg (generate.rs:110-113): the re-encoded bytes are
\* a function of the decoded image and the tier; the micro rendition is the
\* shorter one
reencode(jpeg_data, tier) ==
    IF tier = "micro" THEN <<255, jpeg_data[2]>>
    ELSE <<255, jpeg_data[2], jpeg_data[2]>>

\* generate.rs:94-114
generate_thumbnail(path, tier) ==
    LET jpeg_data == extract_embedded_jpeg(path, tier)
    IN IF ~jpeg_data.ok THEN jpeg_data
       ELSE IF tier = "loupe" THEN jpeg_data
       ELSE IF ~decodes(OkValue(jpeg_data))
            THEN with_context(Err("decode"), "Failed to decode embedded JPEG")
       ELSE Ok(reencode(OkValue(jpeg_data), tier))

(***************************************************************************)
(* Resizing and encoding (generate.rs:20-39, 138-170) on the decoded       *)
(* image, an image being its dimensions [width, height] and an encoded     *)
(* JPEG the image together with the quality the encoder used.              *)
(***************************************************************************)
\* generate.rs:20-26
max_dimension(tier) ==
    CASE tier = "micro"   -> Some(300)
      [] tier = "preview" -> Some(1600)
      [] tier = "loupe"   -> None

\* generate.rs:33-39
jpeg_quality(tier) ==
    CASE tier = "micro"   -> 80
      [] tier = "preview" -> 85
      [] tier = "loupe"   -> 85

\* (num / den).round() as u32 for num >= 0, den > 0.  f64::round rounds half
\* away from zero; the f64 product carries a rounding error far smaller than
\* the distance of a quotient from the nearest half unless the quotient is
\* exactly a half, where either neighbour can come out: half_up chooses.
round_f64(num, den, half_up) ==
    LET q == num \div den
        r == num % den
    IN IF 2 * r > den THEN q + 1
       ELSE IF 2 * r < den THEN q
       ELSE IF half_up THEN q + 1 ELSE q

\* DynamicImage::resize(nwidth, nheight, filter), called at generate.rs:158:
\* the aspect ratio is kept and the image scaled by the smaller of
\* nwidth / width and nheight / height, no edge below 1 pixel
DynamicImage_resize(img, nwidth, nheight, half_up) ==
    LET by_width == nwidth * img.height <= nheight * img.width
        num == IF by_width THEN nwidth ELSE nheight
        den == IF by_width THEN img.width ELSE img.height
    IN [width  |-> Max(round_f64(img.width * num, den, half_up), 1),
        height |-> Max(round_f64(img.height * num, den, half_up), 1)]

\* Mutant of resize_image: an image smaller than the bound is scaled up to it.
resize_image_Upscale(img, tier, half_up) ==
    IF max_dimension(tier) = None THEN img
    ELSE LET max_dim == Unwrap(max_dimension(tier))
             max_existing == Max(img.width, img.height)
         IN DynamicImage_resize(img,
                round_f64(img.width * max_dim, max_existing, half_up),
                round_f64(img.height * max_dim, max_existing, half_up),
                half_up)

\* generate.rs:138-159
resize_image(img, tier, half_up) ==
    IF max_dimension(tier) = None THEN img
    ELSE LET max_dim == Unwrap(max_dimension(tier))
             max_existing == Max(img.width, img.height)
         IN IF max_existing <= max_dim THEN img
            ELSE DynamicImage_resize(img,
                    round_f64(img.width * max_dim, max_existing, half_up),
                    round_f64(img.height * max_dim, max_existing, half_up),
                    half_up)

\* img.write_to(.., ImageFormat::Jpeg) (generate.rs:166) builds the encoder
\* without a quality: the image crate's default applies
ImageDefaultQuality == 75

\* generate.rs:161-170: the quality argument is not passed to the encoder
encode_jpeg(img, quality) ==
    Ok([image |-> img, quality |-> ImageDefaultQuality])

\* generate.rs:110-113: what generate_thumbnail does with the decoded image
resize_and_encode(img, tier, half_up) ==
    encode_jpeg(resize_image(img, tier, half_up), jpeg_quality(tier))

(***************************************************************************)
(* ThumbnailCache (cache.rs:18-247).  The operators take and return the    *)
(* manager's state s = [mem, disk] together with the call's result.        *)
(***************************************************************************)
\* ThumbnailConfig::default (lib.rs:43-55), budgets scaled to the short byte
\* strings of the model
DefaultConfig ==
    [micro_memory_budget |-> 150, preview_memory_budget |-> 200,
     loupe_memory_budget |-> 100]
\* a configuration passed to with_config (cache.rs:34): room for one micro
\* thumbnail, two previews, and less than a.raw's native preview
SmallConfig ==
    [micro_memory_budget |-> 2, preview_memory_budget |-> 6,
     loupe_memory_budget |-> 4]
Configs == {DefaultConfig, SmallConfig}

\* cache.rs:46-48
NewMemory(cfg) ==
    [t \in Tiers |->
        CASE t = "micro"   -> LruCache_new(cfg.micro_memory_budget)
          [] t = "preview" -> LruCache_new(cfg.preview_memory_budget)
          [] t = "loupe"   -> LruCache_new(cfg.loupe_memory_budget)]

\* cache.rs:40-44: the per-tier directories, empty
EmptyDisk == [t \in Tiers |-> EmptyMap]

\* Mutant of get: a memory miss is a miss, the disk file is not looked up
\* (cache.rs:89-95 dropped).
get_MemoryOnly(s, file_hash, tier) ==
    LET memory == LruCache_get(s.mem[tier], file_hash)
    IN [mem |-> [s.mem EXCEPT ![tier] = memory.c], disk |-> s.disk,
        ret |-> memory.ret, disk_read |-> FALSE]

\* cache.rs:82-98
get(s, file_hash, tier) ==
    LET memory == LruCache_get(s.mem[tier], file_hash)
    IN IF IsSome(memory.ret)
       THEN [mem |-> [s.mem EXCEPT ![tier] = memory.c], disk |-> s.disk,
             ret |-> memory.ret, disk_read |-> FALSE]
       ELSE IF file_hash \in DOMAIN s.disk[tier]
       THEN LET data == s.disk[tier][file_hash]
            IN [mem |-> [s.mem EXCEPT ![tier] =
                            LruCache_insert(s.mem[tier], file_hash, data,
                                            Len(data))],
                disk |-> s.disk, ret |-> Some(data), disk_read |-> TRUE]
       ELSE [mem |-> s.mem, disk |-> s.disk, ret |-> None, disk_read |-> TRUE]

\* Mutant of store: the length of the key is recorded as the entry's size.
store_KeyLen(s, file_hash, tier, data, write_ok) ==
    LET memory == LruCache_insert(s.mem[tier], file_hash, data, file_hash.len)
    IN [mem  |-> [s.mem EXCEPT ![tier] = memory],
        disk |-> IF write_ok
                 THEN [s.disk EXCEPT ![tier] = MapInsert(@, file_hash, data)]
                 ELSE s.disk,
        ret  |-> IF write_ok THEN Ok("unit")
                 ELSE with_context(Err("io: write"),
                                   "Failed to write cache file")]

\* cache.rs:125-136.  write_ok is whether fs::write succeeds; a failed write
\* leaves the directory as it was.
store(s, file_hash, tier, data, write_ok) ==
    LET memory == LruCache_insert(s.mem[tier], file_hash, data, Len(data))
    IN [mem  |-> [s.mem EXCEPT ![tier] = memory],
        disk |-> IF write_ok
                 THEN [s.disk EXCEPT ![tier] = MapInsert(@, file_hash, data)]
                 ELSE s.disk,
        ret  |-> IF write_ok THEN Ok("unit")
                 ELSE with_context(Err("io: write"),
                                   "Failed to write cache file")]

\* Mutant of get_or_generate: no existence check (cache.rs:103-105 dropped),
\* the missing file is met by generate_cache_key.
get_or_generate_NoExistsCheck(s, file_path, tier, write_ok) ==
    LET file_hash == generate_cache_key(file_path)
    IN IF ~file_hash.ok
       THEN [mem |-> s.mem, disk |-> s.disk, ret |-> file_hash,
             pipeline |-> FALSE]
       ELSE
       LET cached == get(s, OkValue(file_hash), tier)
       IN IF IsSome(cached.ret)
          THEN [mem |-> cached.mem, disk |-> cached.disk,
                ret |-> Ok(Unwrap(cached.ret)), pipeline |-> FALSE]
          ELSE
          LET data == with_context(generate_thumbnail(file_path, tier),
                                   "Failed to generate thumbnail")
          IN IF ~data.ok
             THEN [mem |-> cached.mem, disk |-> cached.disk, ret |-> data,
                   pipeline |-> TRUE]
             ELSE
             LET stored == store(cached, OkValue(file_hash), tier,
                                 OkValue(data), write_ok)
             IN [mem |-> stored.mem, disk |-> stored.disk,
                 ret |-> IF stored.ret.ok THEN data ELSE stored.ret,
                 pipeline |-> TRUE]

\* Mutant of get_or_generate: a failed generation is remembered, an empty
\* thumbnail is stored for the key before the error is returned.
get_or_generate_CacheFailure(s, file_path, tier, write_ok) ==
    IF ~path_exists(file_path)
    THEN [mem |-> s.mem, disk |-> s.disk, ret |-> Err("File does not exist"),
          pipeline |-> FALSE]
    ELSE
    LET file_hash == generate_cache_key(file_path)
        cached == get(s, OkValue(file_hash), tier)
    IN IF IsSome(cached.ret)
       THEN [mem |-> cached.mem, disk |-> cached.disk,
             ret |-> Ok(Unwrap(cached.ret)), pipeline |-> FALSE]
       ELSE
       LET data == with_context(generate_thumbnail(file_path, tier),
                                "Failed to generate thumbnail")
           stored == store(cached, OkValue(file_hash), tier,
                           IF data.ok THEN OkValue(data) ELSE <<>>, write_ok)
       IN [mem |-> stored.mem, disk |-> stored.disk,
           ret |-> IF data.ok /\ ~stored.ret.ok THEN stored.ret ELSE data,
           pipeline |-> TRUE]

\* cache.rs:101-122
get_or_generate(s, file_path, tier, write_ok) ==
    IF ~path_exists(file_path)
    THEN [mem |-> s.mem, disk |-> s.disk, ret |-> Err("File does not exist"),
          pipeline |-> FALSE]
    ELSE
    LET file_hash == generate_cache_key(file_path)
    IN IF ~file_hash.ok
       THEN [mem |-> s.mem, disk |-> s.disk, ret |-> file_hash,
             pipeline |-> FALSE]
       ELSE
       LET cached == get(s, OkValue(file_hash), tier)
       IN IF IsSome(cached.ret)
          THEN [mem |-> cached.mem, disk |-> cached.disk,
                ret |-> Ok(Unwrap(cached.ret)), pipeline |-> FALSE]
          ELSE
          LET data == with_context(generate_thumbnail(file_path, tier),
                                   "Failed to generate thumbnail")
          IN IF ~data.ok
             THEN [mem |-> cached.mem, disk |-> cached.disk, ret |-> data,
                   pipeline |-> TRUE]
             ELSE
             LET stored == store(cached, OkValue(file_hash), tier,
                                 OkValue(data), write_ok)
             IN [mem |-> stored.mem, disk |-> stored.disk,
                 ret |-> IF stored.ret.ok THEN data ELSE stored.ret,
                 pipeline |-> TRUE]

\* Mutant of clear_all: the disk cache is left as it is (cache.rs:232-243
\* dropped).
clear_all_MemoryOnly(s) ==
    [mem  |-> [t \in Tiers |-> LruCache_clear(s.mem[t])],
     disk |-> s.disk,
     ret  |-> Ok("unit")]

\* cache.rs:225-246: the three memory caches are cleared, the cache directory
\* is removed and created again with its three tier directories
clear_all(s) ==
    [mem  |-> [t \in Tiers |-> LruCache_clear(s.mem[t])],
     disk |-> EmptyDisk,
     ret  |-> Ok("unit")]

(***************************************************************************)
(* generate_batch (cache.rs:139-180).  The items of a batch run on rayon's *)
(* pool; each item is the closure body, then the fetch_add on the shared   *)
(* counter, then the progress callback.                                    *)
(***************************************************************************)
\* cache.rs:77-79: <cache_dir>/<tier>/<file_hash>.jpg
get_disk_cache_path(file_hash, tier) == <<"cache_dir", tier, file_hash, "jpg">>

\* cache.rs:155-169: the inner closure of one item
generate_batch_item(s, file_path, tier, write_ok) ==
    LET file_hash == generate_cache_key(file_path)
    IN IF ~file_hash.ok
       THEN [mem |-> s.mem, disk |-> s.disk, ret |-> file_hash]
       ELSE
       LET cached == get(s, OkValue(file_hash), tier)
       IN IF IsSome(cached.ret)
          THEN [mem |-> cached.mem, disk |-> cached.disk,
                ret |-> Ok(get_disk_cache_path(OkValue(file_hash), tier))]
          ELSE
          LET data == generate_thumbnail(file_path, tier)
          IN IF ~data.ok
             THEN [mem |-> cached.mem, disk |-> cached.disk, ret |-> data]
             ELSE
             LET stored == store(cached, OkValue(file_hash), tier,
                                 OkValue(data), write_ok)
             IN [mem |-> stored.mem, disk |-> stored.disk,
                 ret |-> IF stored.ret.ok
                         THEN Ok(get_disk_cache_path(OkValue(file_hash), tier))
                         ELSE stored.ret]

\* Mutant of fetch_add: the counter's new value is returned, not the previous
\* one.
fetch_add_ReturnsNew(counter, n) ==
    [counter |-> counter + n, previous |-> counter + n]

\* AtomicUsize::fetch_add (cache.rs:172): one indivisible read-modify-write
fetch_add(counter, n) == [counter |-> counter + n, previous |-> counter]

\* Iterator::collect into a HashMap (cache.rs:179; 192-204): the pairs are
\* inserted in order, a later pair replaces an earlier one with the same key
RECURSIVE collect_map(_)
collect_map(results) ==
    IF results = <<>> THEN [p \in {} |-> 0]
    ELSE LET n == Len(results)
             front == collect_map(SubSeq(results, 1, n - 1))
         IN [p \in DOMAIN front \cup {results[n][1]} |->
                IF p = results[n][1] THEN results[n][2] ELSE front[p]]

\* Mutant of generate_batch_return: the first item error becomes the batch's
\* error.
generate_batch_return_FailFast(results) ==
    IF \E i \in 1..Len(results) : ~results[i][2].ok
    THEN results[CHOOSE i \in 1..Len(results) :
                    /\ ~results[i][2].ok
                    /\ \A j \in 1..(i - 1) : results[j][2].ok][2]
    ELSE Ok(collect_map(results))

\* cache.rs:179
generate_batch_return(results) == Ok(collect_map(results))

(***************************************************************************)
(* Color swatches (generate.rs:72-78, 173-223; cache.rs:183-207).          *)
(***************************************************************************)
\* generate.rs:74-78
ColorSwatch(r, g, b) == [r |-> r, g |-> g, b |-> b]

\* the fallback of generate.rs:215 and cache.rs:201
NeutralGray == ColorSwatch(128, 128, 128)

\* DynamicImage::to_rgb8 and dimensions (generate.rs:183-184): the decoded
\* image is width x height pixels whose channels vary over the image
dimensions(jpeg_data) == <<jpeg_data[2], jpeg_data[3]>>
get_pixel(jpeg_data, x, y) ==
    <<(60 * x + 7) % 256, (90 * y + 11) % 256,
      (16 * jpeg_data[2] + jpeg_data[3]) % 256>>

Min(a, b) == IF a <= b THEN a ELSE b

\* the loop of generate.rs:203-211 for one channel
RECURSIVE SumChannel(_, _, _)
SumChannel(jpeg_data, window, channel) ==
    IF window = {} THEN 0
    ELSE LET xy == CHOOSE c \in window : TRUE
         IN get_pixel(jpeg_data, xy[1], xy[2])[channel]
                + SumChannel(jpeg_data, window \ {xy}, channel)

\* generate.rs:186-195: the sampled window
sample_window(width, height) ==
    LET center_x == width \div 2
        center_y == height \div 2
        sample_width == Max(width \div 4, 1)
        sample_height == Max(height \div 4, 1)
        start_x == saturating_sub(center_x, sample_width \div 2)
        start_y == saturating_sub(center_y, sample_height \div 2)
        end_x == Min(start_x + sample_width, width)
        end_y == Min(start_y + sample_height, height)
    IN (start_x..(end_x - 1)) \X (start_y..(end_y - 1))

\* Mutant of extract_color_swatch: every failure is replaced by the neutral
\* gray.
extract_color_swatch_AlwaysOk(file_path) ==
    LET jpeg_data == extract_embedded_jpeg(file_path, "micro")
    IN IF ~jpeg_data.ok \/ ~decodes(OkValue(jpeg_data)) THEN Ok(NeutralGray)
       ELSE
       LET bytes == OkValue(jpeg_data)
           window == sample_window(dimensions(bytes)[1], dimensions(bytes)[2])
           pixel_count == Cardinality(window)
       IN IF pixel_count = 0 THEN Ok(NeutralGray)
          ELSE Ok(ColorSwatch(SumChannel(bytes, window, 1) \div pixel_count,
                              SumChannel(bytes, window, 2) \div pixel_count,
                              SumChannel(bytes, window, 3) \div pixel_count))

\* generate.rs:173-223
extract_color_swatch(file_path) ==
    LET jpeg_data == extract_embedded_jpeg(file_path, "micro")
    IN IF ~jpeg_data.ok THEN jpeg_data
       ELSE IF ~decodes(OkValue(jpeg_data))
            THEN with_context(Err("decode"),
                              "Failed to decode image for color extraction")
       ELSE
       LET bytes == OkValue(jpeg_data)
           window == sample_window(dimensions(bytes)[1], dimensions(bytes)[2])
           pixel_count == Cardinality(window)
       IN IF pixel_count = 0 THEN Ok(NeutralGray)
          ELSE Ok(ColorSwatch(SumChannel(bytes, window, 1) \div pixel_count,
                              SumChannel(bytes, window, 2) \div pixel_count,
                              SumChannel(bytes, window, 3) \div pixel_count))

\* Mutant of collect_swatches: a failed item is left out of the map.
collect_swatches_DropFailed(results) ==
    LET kept == SelectSeq(results, LAMBDA pair : pair[2].ok)
    IN Ok(collect_map([i \in 1..Len(kept) |->
            <<kept[i][1], OkValue(kept[i][2])>>]))

\* cache.rs:192-206: the loop over the collected (path, result) pairs
collect_swatches(results) ==
    Ok(collect_map([i \in 1..Len(results) |->
            <<results[i][1],
              IF results[i][2].ok THEN OkValue(results[i][2])
              ELSE NeutralGray>>]))

(***************************************************************************)
(* PrefetchScheduler (prefetch.rs:56-273).  A job of the model is the      *)
(* PrefetchJobHandle and the worker thread spawned for it:                 *)
(*   job          the PrefetchJob given to start_prefetch                  *)
(*   cancel_flag  the AtomicBool                                           *)
(*   progress     the PrefetchProgress behind its mutex                    *)
(*   pc           the worker's position: "chunk" (before a chunk),         *)
(*                "items" (inside the par_iter of a chunk), "finish"       *)
(*                (after the loop), "returned"                             *)
(*   order, chunk the priority order and the number of the current chunk   *)
(*   items        the state of every item of the current chunk: "todo",    *)
(*                "calling" (passed the flag check), "update" (returned    *)
(*                from get_or_generate), "done"                            *)
(*   completed, failed, viewport_completed   the three AtomicUsize         *)
(*   calls        history: the get_or_generate calls the worker has made   *)
(*   running_at_call  history: the jobs that were running when the        *)
(*                start_prefetch of this job was called                    *)
(*   cancel_returned  history: the cancel_current_job that took this job   *)
(*                from the slot has returned                               *)
(*   late_call    history: the worker made a get_or_generate call after    *)
(*                that return                                              *)
(*   handed       history: the items of the chunks started so far, that    *)
(*                is, handed to the pool by par_iter                       *)
(*   at_cancel    history: the counts of the progress record when the      *)
(*                cancel flag was set, and the items then inside their     *)
(*                get_or_generate call or about to report it               *)
(***************************************************************************)
\* prefetch.rs:220
chunk_size == 4

\* prefetch.rs:197-212: before and after items taken in turn, before first
RECURSIVE Interleave(_, _)
Interleave(before_items, after_items) ==
    IF before_items = <<>> /\ after_items = <<>> THEN <<>>
    ELSE (IF before_items # <<>> THEN <<Head(before_items)>> ELSE <<>>)
         \o (IF after_items # <<>> THEN <<Head(after_items)>> ELSE <<>>)
         \o Interleave(IF before_items # <<>> THEN Tail(before_items) ELSE <<>>,
                       IF after_items # <<>> THEN Tail(after_items) ELSE <<>>)

\* Mutant of priority_order: the items outside the viewport are visited from
\* the start of the list to its end.
priority_order_Linear(job) ==
    LET n == Len(job.file_paths)
        viewport_start == Min(job.viewport_start, n)
        viewport_end == Min(job.viewport_end, n)
    IN [k \in 1..Max(viewport_end - viewport_start, 0) |->
            <<viewport_start + k - 1, TRUE>>]
       \o [k \in 1..viewport_start |-> <<k - 1, FALSE>>]
       \o [k \in 1..Max(n - viewport_end, 0) |-> <<viewport_end + k - 1, FALSE>>]

\* prefetch.rs:169-212: the pairs (index, is_viewport), indices counted from 0
priority_order(job) ==
    LET n == Len(job.file_paths)
        viewport_start == Min(job.viewport_start, n)
        viewport_end == Min(job.viewport_end, n)
        viewport_items ==
            [k \in 1..Max(viewport_end - viewport_start, 0) |->
                <<viewport_start + k - 1, TRUE>>]
        before_items ==
            [k \in 1..viewport_start |-> <<viewport_start - k, FALSE>>]
        after_items ==
            [k \in 1..Max(n - viewport_end, 0) |-> <<viewport_end + k - 1, FALSE>>]
    IN viewport_items \o Interleave(before_items, after_items)

\* prefetch.rs:221: priority_order.chunks(chunk_size)
chunk_count(order) == (Len(order) + chunk_size - 1) \div chunk_size
chunk_of(order, k) ==
    SubSeq(order, (k - 1) * chunk_size + 1, Min(k * chunk_size, Len(order)))

\* prefetch.rs:82-99, 106-114: the progress record, the flag and the thread
\* that start_prefetch creates
NewJob(job, running) ==
    [job |-> job,
     cancel_flag |-> FALSE,
     progress |-> [total_files |-> Len(job.file_paths),
                   completed_files |-> 0, failed_files |-> 0,
                   viewport_completed |-> 0,
                   viewport_total |-> IF job.viewport_end > job.viewport_start
                                      THEN job.viewport_end - job.viewport_start
                                      ELSE 0,
                   is_cancelled |-> FALSE, is_finished |-> FALSE],
     pc |-> IF priority_order(job) = <<>> THEN "finish" ELSE "chunk",
     order |-> priority_order(job), chunk |-> 1,
     items |-> <<>>, completed |-> 0, failed |-> 0, viewport_completed |-> 0,
     calls |-> 0, running_at_call |-> running, cancel_returned |-> FALSE,
     late_call |-> FALSE, handed |-> 0, at_cancel |-> None]

\* Mutant of count_result: a failed item is not counted.
count_result_FailUncounted(j, ok, is_viewport) ==
    [j EXCEPT !.completed = IF ok THEN fetch_add(@, 1).counter ELSE @,
              !.viewport_completed =
                  IF ok /\ is_viewport THEN fetch_add(@, 1).counter ELSE @]

\* prefetch.rs:237-247: the match on the result of get_or_generate
count_result(j, ok, is_viewport) ==
    [j EXCEPT !.completed = IF ok THEN fetch_add(@, 1).counter ELSE @,
              !.viewport_completed =
                  IF ok /\ is_viewport THEN fetch_add(@, 1).counter ELSE @,
              !.failed = IF ok THEN @ ELSE fetch_add(@, 1).counter]

\* Mutant of finished_progress: a cancelled job is reported complete.
finished_progress_CompleteAll(j) ==
    IF j.cancel_flag
    THEN [j.progress EXCEPT !.is_finished = TRUE,
                            !.completed_files = j.progress.total_files]
    ELSE [j.progress EXCEPT !.is_finished = TRUE,
                            !.completed_files = j.completed,
                            !.failed_files = j.failed,
                            !.viewport_completed = j.viewport_completed]

\* prefetch.rs:262-270: the progress record as the worker leaves it
finished_progress(j) ==
    IF j.cancel_flag
    THEN [j.progress EXCEPT !.is_finished = TRUE]
    ELSE [j.progress EXCEPT !.is_finished = TRUE,
                            !.completed_files = j.completed,
                            !.failed_files = j.failed,
                            !.viewport_completed = j.viewport_completed]

\* Mutant of thread_joined: join never returns.
thread_joined_Never(j) == j.pc = "joined"

\* Mutant of thread_joined: join returns without waiting for the worker.
thread_joined_NoWait(j) == j.pc \in {"chunk", "items", "finish", "returned"}

\* JoinHandle::join (prefetch.rs:135) returns once the worker has returned
thread_joined(j) == j.pc = "returned"

\* Mutant of is_running: a finished job still counts as running.
is_running_IgnoresFinished(slot, js) ==
    IF IsSome(slot) THEN ~js[Unwrap(slot)].progress.is_cancelled ELSE FALSE

\* prefetch.rs:152-160
is_running(slot, js) ==
    IF IsSome(slot)
    THEN /\ ~js[Unwrap(slot)].progress.is_finished
         /\ ~js[Unwrap(slot)].progress.is_cancelled
    ELSE FALSE

\* prefetch.rs:141-149
get_progress(slot, js) ==
    IF IsSome(slot) THEN Some(js[Unwrap(slot)].progress) ELSE None

(***************************************************************************)
(* SpecLru: one LruCache driven through its public API.                    *)
(***************************************************************************)
LruKeys == {"A", "B", "C", "D"}
LruValues == {<<1, 2, 3>>, <<1, 2, 3, 4, 5>>}
LruSizes == {5, 15, 30}
LruBudgets == {15, 25}

\* The recency scenario: insert A, B, C (5 bytes each), get(A), insert D (15
\* bytes), on a fresh cache.  Any other call leaves the scenario.
ScenNext(s, call) ==
    CASE s = "new"   /\ call.op = "insert" /\ call.key = "A" /\ call.byte_size = 5
            -> "A"
      [] s = "A"     /\ call.op = "insert" /\ call.key = "B" /\ call.byte_size = 5
            -> "AB"
      [] s = "AB"    /\ call.op = "insert" /\ call.key = "C" /\ call.byte_size = 5
            -> "ABC"
      [] s = "ABC"   /\ call.op = "get" /\ call.key = "A"
            -> "ABCa"
      [] s = "ABCa"  /\ call.op = "insert" /\ call.key = "D" /\ call.byte_size = 15
            -> "ABCaD"
      [] OTHER -> "off"

\* the variables of the side that a specification does not exercise
LruUnused ==
    /\ cache = LruCache_new(0)
    /\ largest = 0
    /\ last = [op |-> "unused"]
    /\ scen = "off"
MgrUnused ==
    /\ config = DefaultConfig
    /\ mem = NewMemory(DefaultConfig)
    /\ disk = EmptyDisk
    /\ done = [op |-> "unused"]
CalcUnused ==
    /\ calc = [op |-> "unused"]
    /\ race = <<>>
BatchUnused ==
    /\ batch = [pc |-> "unused"]
    /\ swatch = [op |-> "unused"]
    /\ CalcUnused
PrefetchUnused ==
    /\ current_job = [job |-> None, lock |-> None]
    /\ jobs = <<>>
    /\ callers = <<>>
    /\ pscen = [at |-> "off", thread |-> "none", ret |-> None]
    /\ polled = [op |-> "none"]

\* LruCache::new (lru.rs:29-38)
InitLru ==
    /\ \E b \in LruBudgets : cache = LruCache_new(b)
    /\ largest = 0
    /\ last = [op |-> "new"]
    /\ scen = "new"
    /\ MgrUnused
    /\ BatchUnused
    /\ PrefetchUnused

\* LruCache::insert (lru.rs:51-54)
Lru_Insert(key, value, byte_size) ==
    /\ last.op # "unused"
    /\ cache.access_counter < MaxCounter
    /\ cache' = LruCache_insert(cache, key, value, byte_size)
    /\ largest' = Max(largest, byte_size)
    /\ last' = [op |-> "insert", key |-> key, value |-> value,
                byte_size |-> byte_size,
                replaced |-> IF key \in DOMAIN cache.data
                             THEN Some(cache.data[key].byte_size) ELSE None]
    /\ scen' = ScenNext(scen, last')
    /\ UNCHANGED <<mgrVars, batchVars, prefetchVars>>

\* LruCache::get (lru.rs:41-48)
Lru_Get(key) ==
    /\ last.op # "unused"
    /\ cache.access_counter < MaxCounter
    /\ LET r == LruCache_get(cache, key)
       IN /\ cache' = r.c
          /\ last' = [op |-> "get", key |-> key, ret |-> r.ret]
    /\ scen' = ScenNext(scen, last')
    /\ UNCHANGED <<largest, mgrVars, batchVars, prefetchVars>>

\* LruCache::clear (lru.rs:77-80)
Lru_Clear ==
    /\ last.op # "unused"
    /\ cache' = LruCache_clear(cache)
    /\ last' = [op |-> "clear"]
    /\ scen' = ScenNext(scen, last')
    /\ UNCHANGED <<largest, mgrVars, batchVars, prefetchVars>>

NextLru ==
    \/ \E key \in LruKeys, value \in LruValues, byte_size \in LruSizes :
          Lru_Insert(key, value, byte_size)
    \/ \E key \in LruKeys : Lru_Get(key)
    \/ Lru_Clear

SpecLru == InitLru /\ [][NextLru]_vars

(***************************************************************************)
(* SpecLocked: one LruCache shared by several threads.  A public call      *)
(* locks the mutex (lru.rs:46, 52, 58, 68, 78), runs the statements of the *)
(* inner function one by one and unlocks when its guard is dropped.        *)
(* race.lock is the holder of the mutex, race.threads[t] the position of   *)
(* thread t; before is the cache as it was when the thread got the lock.   *)
(***************************************************************************)
LockThreads == {"t1", "t2"}
LockedKeys == {"A", "B"}
LockedSizes == {5, 15, 30}

\* the calls a thread makes: insert(key, value, byte_size), get(key), clear(),
\* len(), total_bytes()
LockedCalls ==
    [op : {"insert"}, key : LockedKeys, byte_size : LockedSizes]
        \cup [op : {"get"}, key : LockedKeys, byte_size : {0}]
        \cup [op : {"clear", "len", "total_bytes"}, key : {""}, byte_size : {0}]

ThreadIdle ==
    [pc |-> "idle", op |-> "none", key |-> "", byte_size |-> 0,
     before |-> None, ret |-> None]

\* Mutant of mutex_lock: the lock is taken whoever holds it.
mutex_lock_NoExclusion(lock) == TRUE

\* parking_lot::Mutex::lock (lru.rs:46): returns when no thread holds it
mutex_lock(lock) == lock = None

InitLocked ==
    /\ \E b \in LruBudgets : cache = LruCache_new(b)
    /\ race = [lock |-> None, threads |-> [t \in LockThreads |-> ThreadIdle]]
    /\ largest = 0
    /\ last = [op |-> "unused"]
    /\ scen = "off"
    /\ calc = [op |-> "unused"]
    /\ batch = [pc |-> "unused"]
    /\ swatch = [op |-> "unused"]
    /\ MgrUnused
    /\ PrefetchUnused

LockedUnchanged ==
    <<largest, last, scen, calc, batch, swatch, mgrVars, prefetchVars>>

\* the first statement of the inner function of a call
FirstStep(op) ==
    CASE op = "insert" -> "counter"
      [] op = "get" -> "lookup"
      [] op = "clear" -> "clear_data"
      [] OTHER -> "read"

\* a thread calls a public function of the cache (lru.rs:41-80)
Locked_Call(t, call) ==
    /\ race.threads[t].pc = "idle"
    /\ cache.access_counter < MaxCounter
    /\ race' = [race EXCEPT !.threads[t] =
                    [pc |-> "lock", op |-> call.op, key |-> call.key,
                     byte_size |-> call.byte_size, before |-> None,
                     ret |-> None]]
    /\ UNCHANGED <<cache, LockedUnchanged>>

\* self.inner.lock() (lru.rs:46, 52, 58, 68, 78)
Locked_Acquire(t) ==
    /\ race.threads[t].pc = "lock"
    /\ mutex_lock(race.lock)
    /\ race' = [race EXCEPT !.lock = Some(t),
                            !.threads[t].pc = FirstStep(race.threads[t].op),
                            !.threads[t].before = Some(cache)]
    /\ UNCHANGED <<cache, LockedUnchanged>>

\* lru.rs:106
Insert_Counter(t) ==
    /\ race.threads[t].pc = "counter"
    /\ cache' = [cache EXCEPT !.access_counter = @ + 1]
    /\ race' = [race EXCEPT !.threads[t].pc = "total"]
    /\ UNCHANGED LockedUnchanged

\* lru.rs:109-115
Insert_Total(t) ==
    /\ race.threads[t].pc = "total"
    /\ LET th == race.threads[t]
       IN cache' = [cache EXCEPT !.total_bytes =
             IF th.key \in DOMAIN cache.data
             THEN saturating_add(
                      saturating_sub(@, cache.data[th.key].byte_size),
                      th.byte_size)
             ELSE saturating_add(@, th.byte_size)]
    /\ race' = [race EXCEPT !.threads[t].pc = "put"]
    /\ UNCHANGED LockedUnchanged

\* lru.rs:117
Insert_Put(t) ==
    /\ race.threads[t].pc = "put"
    /\ LET th == race.threads[t]
       IN cache' = [cache EXCEPT !.data =
             MapInsert(@, th.key, [value |-> <<1, 2, 3>>,
                                   byte_size |-> th.byte_size,
                                   access_time |-> cache.access_counter])]
    /\ race' = [race EXCEPT !.threads[t].pc = "evict"]
    /\ UNCHANGED LockedUnchanged

\* lru.rs:120-122: one turn of the eviction loop, or its end
Insert_Evict(t) ==
    /\ race.threads[t].pc = "evict"
    /\ IF cache.total_bytes > cache.max_bytes /\ DOMAIN cache.data # {}
       THEN /\ cache' = evict_lru(cache)
            /\ race' = race
       ELSE /\ cache' = cache
            /\ race' = [race EXCEPT !.threads[t].pc = "unlock"]
    /\ UNCHANGED LockedUnchanged

\* lru.rs:89-94, 99-101
Get_Lookup(t) ==
    /\ race.threads[t].pc = "lookup"
    /\ LET th == race.threads[t]
       IN IF th.key \in DOMAIN cache.data
          THEN /\ cache' = [cache EXCEPT !.access_counter = @ + 1]
               /\ race' = [race EXCEPT
                     !.threads[t].pc = "stamp",
                     !.threads[t].ret = Some(Some(cache.data[th.key].value))]
          ELSE /\ cache' = cache
               /\ race' = [race EXCEPT !.threads[t].pc = "unlock",
                                       !.threads[t].ret = Some(None)]
    /\ UNCHANGED LockedUnchanged

\* lru.rs:95-97
Get_Stamp(t) ==
    /\ race.threads[t].pc = "stamp"
    /\ LET th == race.threads[t]
       IN cache' = IF th.key \in DOMAIN cache.data
                   THEN [cache EXCEPT !.data[th.key].access_time =
                                          cache.access_counter]
                   ELSE cache
    /\ race' = [race EXCEPT !.threads[t].pc = "unlock"]
    /\ UNCHANGED LockedUnchanged

\* lru.rs:149-151, one statement in a step
Clear_Step(t) ==
    /\ race.threads[t].pc \in {"clear_data", "clear_total", "clear_counter"}
    /\ LET pc == race.threads[t].pc
       IN /\ cache' = CASE pc = "clear_data" -> [cache EXCEPT !.data = EmptyMap]
                        [] pc = "clear_total" -> [cache EXCEPT !.total_bytes = 0]
                        [] OTHER -> [cache EXCEPT !.access_counter = 0]
          /\ race' = [race EXCEPT !.threads[t].pc =
                         CASE pc = "clear_data" -> "clear_total"
                           [] pc = "clear_total" -> "clear_counter"
                           [] OTHER -> "unlock"]
    /\ UNCHANGED LockedUnchanged

\* lru.rs:58 and 68: total_bytes() and len() read a field
Read_Field(t) ==
    /\ race.threads[t].pc = "read"
    /\ race' = [race EXCEPT
          !.threads[t].pc = "unlock",
          !.threads[t].ret = Some(IF race.threads[t].op = "len"
                                  THEN len(cache) ELSE total_bytes(cache))]
    /\ UNCHANGED <<cache, LockedUnchanged>>

\* the guard is dropped and the call returns
Locked_Release(t) ==
    /\ race.threads[t].pc = "unlock"
    /\ race' = [race EXCEPT !.lock = None, !.threads[t] = ThreadIdle]
    /\ UNCHANGED <<cache, LockedUnchanged>>

NextLocked ==
    \/ \E t \in LockThreads, call \in LockedCalls : Locked_Call(t, call)
    \/ \E t \in LockThreads : Locked_Acquire(t)
    \/ \E t \in LockThreads : Insert_Counter(t)
    \/ \E t \in LockThreads : Insert_Total(t)
    \/ \E t \in LockThreads : Insert_Put(t)
    \/ \E t \in LockThreads : Insert_Evict(t)
    \/ \E t \in LockThreads : Get_Lookup(t)
    \/ \E t \in LockThreads : Get_Stamp(t)
    \/ \E t \in LockThreads : Clear_Step(t)
    \/ \E t \in LockThreads : Read_Field(t)
    \/ \E t \in LockThreads : Locked_Release(t)

SpecLocked == InitLocked /\ [][NextLocked]_vars

(***************************************************************************)
(* Spec: one ThumbnailCache, every public call run to completion.          *)
(***************************************************************************)
\* the keys of the source files that exist
CacheKeys ==
    {OkValue(generate_cache_key(p)) : p \in {q \in SourcePaths : path_exists(q)}}

\* a cache directory left by an earlier run of the same session
\* (create_dir_all, cache.rs:36-44, keeps what is there)
EarlierDisk ==
    [EmptyDisk EXCEPT
        !["micro"] = MapInsert(@, OkValue(generate_cache_key("a.raw")),
                               OkValue(generate_thumbnail("a.raw", "micro")))]

\* the logical accesses made on the three memory caches since the last clear
Accesses ==
    mem["micro"].access_counter + mem["preview"].access_counter
        + mem["loupe"].access_counter

\* ThumbnailCache::with_config (cache.rs:34-58)
Init ==
    /\ \E cfg \in Configs : config = cfg /\ mem = NewMemory(cfg)
    /\ disk \in {EmptyDisk, EarlierDisk}
    /\ done = [op |-> "new"]
    /\ LruUnused
    /\ BatchUnused
    /\ PrefetchUnused

\* ThumbnailCache::get (cache.rs:82-98)
Cache_Get(file_hash, tier) ==
    /\ done.op # "unused"
    /\ Accesses < MaxAccesses
    /\ LET r == get([mem |-> mem, disk |-> disk], file_hash, tier)
       IN /\ mem' = r.mem
          /\ disk' = r.disk
          /\ done' = [op |-> "get", key |-> file_hash, tier |-> tier,
                      ret |-> r.ret, disk_read |-> r.disk_read]
    /\ UNCHANGED <<config, lruVars, batchVars, prefetchVars>>

\* ThumbnailCache::get_or_generate (cache.rs:101-122)
Cache_GetOrGenerate(file_path, tier) ==
    /\ done.op # "unused"
    /\ Accesses < MaxAccesses
    /\ \E write_ok \in BOOLEAN :
          LET r == get_or_generate([mem |-> mem, disk |-> disk], file_path,
                                   tier, write_ok)
          IN /\ mem' = r.mem
             /\ disk' = r.disk
             /\ done' = [op |-> "get_or_generate", path |-> file_path,
                         tier |-> tier, ret |-> r.ret,
                         pipeline |-> r.pipeline]
    /\ UNCHANGED <<config, lruVars, batchVars, prefetchVars>>

\* ThumbnailCache::clear_all (cache.rs:225-246); had is the history of what
\* was cached, in memory or on disk, when the call was made
Cache_ClearAll ==
    /\ done.op # "unused"
    /\ LET r == clear_all([mem |-> mem, disk |-> disk])
       IN /\ mem' = r.mem
          /\ disk' = r.disk
          /\ done' = [op |-> "clear_all", ret |-> r.ret,
                      had |-> {tk \in Tiers \X CacheKeys :
                                  \/ tk[2] \in DOMAIN mem[tk[1]].data
                                  \/ tk[2] \in DOMAIN disk[tk[1]]}]
    /\ UNCHANGED <<config, lruVars, batchVars, prefetchVars>>

Next ==
    \/ \E file_hash \in CacheKeys, tier \in Tiers : Cache_Get(file_hash, tier)
    \/ \E file_path \in SourcePaths, tier \in Tiers :
          Cache_GetOrGenerate(file_path, tier)
    \/ Cache_ClearAll

Spec == Init /\ [][Next]_vars

(***************************************************************************)
(* SpecAll: the cache used either way, directly or through the manager.    *)
(***************************************************************************)
InitAll == InitLru \/ Init
NextAll == NextLru \/ Next
SpecAll == InitAll /\ [][NextAll]_vars

(***************************************************************************)
(* SpecBatch: one ThumbnailCache running generate_batch.  rayon runs the   *)
(* items of a batch in any interleaving; an item is three steps, the       *)
(* closure body, the fetch_add and the callback.                           *)
(***************************************************************************)
BatchPaths == {"a.raw", "b.raw", "missing.raw"}
BatchTiers == {"micro", "loupe"}

\* the sequences over S of length n, and of length at most n
RECURSIVE SeqsOfLen(_, _)
SeqsOfLen(S, n) ==
    IF n = 0 THEN {<<>>}
    ELSE {Append(q, x) : q \in SeqsOfLen(S, n - 1), x \in S}
SeqsUpTo(S, n) == UNION {SeqsOfLen(S, k) : k \in 0..n}

\* ThumbnailCache::with_config (cache.rs:34-58); no batch has been called
InitBatch ==
    /\ config = DefaultConfig
    /\ mem = NewMemory(DefaultConfig)
    /\ disk \in {EmptyDisk, EarlierDisk}
    /\ done = [op |-> "new"]
    /\ batch = [pc |-> "idle", file_paths |-> <<>>, tier |-> "micro",
                completed |-> 0, items |-> <<>>, calls |-> <<>>, ret |-> None]
    /\ swatch = [op |-> "unused"]
    /\ CalcUnused
    /\ LruUnused
    /\ PrefetchUnused

\* cache.rs:139-153: the call is entered, total and completed are set up and
\* the items are handed to the pool; one batch is followed to its return
Batch_Call(file_paths, tier) ==
    /\ batch.pc = "idle"
    /\ batch' = [pc |-> "running", file_paths |-> file_paths, tier |-> tier,
                 completed |-> 0,
                 items |-> [i \in 1..Len(file_paths) |->
                              [pc |-> "body", result |-> None, current |-> 0]],
                 calls |-> <<>>, ret |-> None]
    /\ UNCHANGED <<mgrVars, lruVars, swatch, calcVars, prefetchVars>>

\* cache.rs:155-169: one item's closure
Batch_ItemBody(i) ==
    /\ batch.pc = "running"
    /\ i \in 1..Len(batch.items)
    /\ batch.items[i].pc = "body"
    /\ \E write_ok \in BOOLEAN :
          LET r == generate_batch_item([mem |-> mem, disk |-> disk],
                                       batch.file_paths[i], batch.tier,
                                       write_ok)
          IN /\ mem' = r.mem
             /\ disk' = r.disk
             /\ batch' = [batch EXCEPT !.items[i].pc = "count",
                                       !.items[i].result = Some(r.ret)]
    /\ UNCHANGED <<config, done, lruVars, swatch, calcVars, prefetchVars>>

\* cache.rs:172
Batch_ItemCount(i) ==
    /\ batch.pc = "running"
    /\ i \in 1..Len(batch.items)
    /\ batch.items[i].pc = "count"
    /\ LET f == fetch_add(batch.completed, 1)
       IN batch' = [batch EXCEPT !.completed = f.counter,
                                 !.items[i].current = f.previous + 1,
                                 !.items[i].pc = "callback"]
    /\ UNCHANGED <<mgrVars, lruVars, swatch, calcVars, prefetchVars>>

\* cache.rs:173: progress_callback(current, total); calls is the sequence of
\* the callback's invocations
Batch_ItemCallback(i) ==
    /\ batch.pc = "running"
    /\ i \in 1..Len(batch.items)
    /\ batch.items[i].pc = "callback"
    /\ batch' = [batch EXCEPT
                    !.calls = Append(@, <<batch.items[i].current,
                                          Len(batch.file_paths)>>),
                    !.items[i].pc = "done"]
    /\ UNCHANGED <<mgrVars, lruVars, swatch, calcVars, prefetchVars>>

\* cache.rs:175-179: all items have been collected, the map is returned
Batch_Return ==
    /\ batch.pc = "running"
    /\ \A i \in 1..Len(batch.items) : batch.items[i].pc = "done"
    /\ batch' = [batch EXCEPT
                    !.pc = "returned",
                    !.ret = Some(generate_batch_return(
                                [i \in 1..Len(batch.items) |->
                                    <<batch.file_paths[i],
                                      Unwrap(batch.items[i].result)>>]))]
    /\ UNCHANGED <<mgrVars, lruVars, swatch, calcVars, prefetchVars>>

NextBatch ==
    \/ \E file_paths \in SeqsUpTo(BatchPaths, MaxBatch), tier \in BatchTiers :
          Batch_Call(file_paths, tier)
    \/ \E i \in 1..MaxBatch : Batch_ItemBody(i)
    \/ \E i \in 1..MaxBatch : Batch_ItemCount(i)
    \/ \E i \in 1..MaxBatch : Batch_ItemCallback(i)
    \/ Batch_Return

SpecBatch == InitBatch /\ [][NextBatch]_vars

(***************************************************************************)
(* SpecSwatch: one call of extract_color_swatch, or of get_color_swatches  *)
(* with its items run in any order.                                        *)
(***************************************************************************)
SwatchPaths == SourcePaths \cup {"wide.raw", "empty.raw"}

InitSwatch ==
    /\ swatch = [op |-> "new"]
    /\ batch = [pc |-> "unused"]
    /\ CalcUnused
    /\ MgrUnused
    /\ LruUnused
    /\ PrefetchUnused

\* generate.rs:173-223
Swatch_Extract(file_path) ==
    /\ swatch.op = "new"
    /\ swatch' = [op |-> "extract_color_swatch", path |-> file_path,
                  ret |-> extract_color_swatch(file_path)]
    /\ UNCHANGED <<mgrVars, lruVars, batch, calcVars, prefetchVars>>

\* cache.rs:183-186: get_color_swatches is entered, the items are handed to
\* the pool
Swatch_Batch(file_paths) ==
    /\ swatch.op = "new"
    /\ swatch' = [op |-> "get_color_swatches", pc |-> "running",
                  paths |-> file_paths,
                  results |-> [i \in 1..Len(file_paths) |-> None],
                  ret |-> Ok(<<>>)]
    /\ UNCHANGED <<mgrVars, lruVars, batch, calcVars, prefetchVars>>

\* cache.rs:186-189: one item of the par_iter
Swatch_Item(i) ==
    /\ swatch.op = "get_color_swatches"
    /\ swatch.pc = "running"
    /\ i \in 1..Len(swatch.paths)
    /\ swatch.results[i] = None
    /\ swatch' = [swatch EXCEPT
                    !.results[i] = Some(extract_color_swatch(swatch.paths[i]))]
    /\ UNCHANGED <<mgrVars, lruVars, batch, calcVars, prefetchVars>>

\* cache.rs:190-206: the results are collected and the map is returned
Swatch_Return ==
    /\ swatch.op = "get_color_swatches"
    /\ swatch.pc = "running"
    /\ \A i \in 1..Len(swatch.paths) : IsSome(swatch.results[i])
    /\ swatch' = [swatch EXCEPT
                    !.pc = "returned",
                    !.ret = collect_swatches(
                                [i \in 1..Len(swatch.paths) |->
                                    <<swatch.paths[i],
                                      Unwrap(swatch.results[i])>>])]
    /\ UNCHANGED <<mgrVars, lruVars, batch, calcVars, prefetchVars>>

NextSwatch ==
    \/ \E file_path \in SwatchPaths : Swatch_Extract(file_path)
    \/ \E file_paths \in SeqsUpTo(SwatchPaths, MaxBatch) :
          Swatch_Batch(file_paths)
    \/ \E i \in 1..MaxBatch : Swatch_Item(i)
    \/ Swatch_Return

SpecSwatch == InitSwatch /\ [][NextSwatch]_vars

(***************************************************************************)
(* SpecPrefetch: one PrefetchScheduler over one ThumbnailCache, its public *)
(* methods called from the threads of Callers.  A caller is at "idle"      *)
(* between calls; inside a call its pc names the statement it is about to  *)
(* execute.                                                                *)
(* Writes of cache files succeed in this specification.                    *)
(***************************************************************************)
Callers == {"t1", "t2"}

\* the jobs passed to start_prefetch: the job of test_cancel_functionality
\* (prefetch.rs:379-384) with one file that exists
PrefetchJobs ==
    {[file_paths |-> <<"a.raw">>, tier |-> "micro",
      viewport_start |-> 0, viewport_end |-> 1]}

NoJob ==
    [file_paths |-> <<>>, tier |-> "micro", viewport_start |-> 0,
     viewport_end |-> 0]

\* a caller between two calls, and one at a statement of the call op
CallerIdle ==
    [pc |-> "idle", op |-> "none", job |-> NoJob, taken |-> 0, spawned |-> 0,
     running |-> {}]
CallerAt(pc, op) == [CallerIdle EXCEPT !.pc = pc, !.op = op]

\* the jobs whose worker is alive: spawned and not yet returned
Alive == {j \in 1..Len(jobs) : jobs[j].pc # "returned"}
\* the jobs that are running: alive, neither finished nor cancelled
Running ==
    {j \in Alive : ~jobs[j].progress.is_finished
                   /\ ~jobs[j].progress.is_cancelled}

\* The scenarios of the scheduler's tests.  test_cancel_functionality
\* (prefetch.rs:386-394): on a new scheduler one thread calls start_prefetch,
\* cancel_current_job and get_progress, and no other call is made.
\* test_scheduler_creation (prefetch.rs:365-368): get_progress is the first
\* call on a new scheduler.  ret is what get_progress returned.
ScenCall(t, op) ==
    CASE pscen.at = "new" /\ op = "start_prefetch"
            -> [at |-> "starting", thread |-> t, ret |-> None]
      [] pscen.at = "started" /\ pscen.thread = t /\ op = "cancel_current_job"
            -> [at |-> "cancelling", thread |-> t, ret |-> None]
      [] OTHER -> [at |-> "off", thread |-> "none", ret |-> None]
ScenReturn(t, ret) ==
    CASE pscen.at = "starting" /\ pscen.thread = t
            -> [at |-> "started", thread |-> t, ret |-> None]
      [] pscen.at = "cancelling" /\ pscen.thread = t
            -> [at |-> "cancelled", thread |-> t, ret |-> None]
      [] pscen.at = "cancelled" /\ pscen.thread = t
            -> [at |-> "queried", thread |-> t, ret |-> ret]
      [] pscen.at = "new"
            -> [at |-> "queried_new", thread |-> t, ret |-> ret]
      [] OTHER -> [at |-> "off", thread |-> "none", ret |-> None]

\* PrefetchScheduler::new (prefetch.rs:68-73) over a new ThumbnailCache
InitPrefetch ==
    /\ current_job = [job |-> None, lock |-> None]
    /\ jobs = <<>>
    /\ callers = [t \in Callers |-> CallerIdle]
    /\ pscen = [at |-> "new", thread |-> "none", ret |-> None]
    /\ polled = [op |-> "none"]
    /\ MgrUnused
    /\ LruUnused
    /\ BatchUnused

\* the start_prefetch calls made so far: the jobs spawned and the callers that
\* have not spawned theirs yet
Started ==
    Len(jobs) + Cardinality({t \in DOMAIN callers :
                                /\ callers[t].op = "start_prefetch"
                                /\ callers[t].pc \in {"sp_cancel", "c_join",
                                                      "sp_spawn"}})

\* a thread calls start_prefetch(job) (prefetch.rs:78)
Call_StartPrefetch(t, job, max_jobs) ==
    /\ callers[t].pc = "idle"
    /\ Started < max_jobs
    /\ callers' = [callers EXCEPT ![t] =
                      [pc |-> "sp_cancel", op |-> "start_prefetch", job |-> job,
                       taken |-> 0, spawned |-> 0, running |-> Running]]
    /\ pscen' = ScenCall(t, "start_prefetch")
    /\ UNCHANGED <<current_job, jobs, mgrVars, lruVars, batchVars>>
    /\ polled' = [op |-> "none"]

\* a thread calls cancel_current_job() (prefetch.rs:122)
Call_Cancel(t) ==
    /\ callers[t].pc = "idle"
    /\ callers' = [callers EXCEPT ![t] =
                      CallerAt("c_lock", "cancel_current_job")]
    /\ pscen' = ScenCall(t, "cancel_current_job")
    /\ UNCHANGED <<current_job, jobs, mgrVars, lruVars, batchVars>>
    /\ polled' = [op |-> "none"]

\* cancel_current_job, prefetch.rs:123-130 (also as line 80 of
\* start_prefetch): the job slot is locked and its handle taken.  With a handle
\* the cancel flag is set, the progress record marked cancelled and the lock
\* kept (no thread reads the two between these statements: the worker reads
\* only the flag); without one the call returns.
Cancel_Take(t) ==
    /\ callers[t].pc \in {"sp_cancel", "c_lock"}
    /\ current_job.lock = None
    /\ IF IsSome(current_job.job)
       THEN /\ current_job' = [job |-> None, lock |-> Some(t)]
            /\ LET j == jobs[Unwrap(current_job.job)]
               IN jobs' = [jobs EXCEPT ![Unwrap(current_job.job)] =
                     [j EXCEPT
                        !.cancel_flag = TRUE,
                        !.progress.is_cancelled = TRUE,
                        !.at_cancel =
                            Some([completed_files |-> j.progress.completed_files,
                                  failed_files |-> j.progress.failed_files,
                                  viewport_completed |->
                                      j.progress.viewport_completed,
                                  in_flight |->
                                      Cardinality({i \in 1..Len(j.items) :
                                          j.items[i] \in {"calling", "update"}})])]]
            /\ callers' = [callers EXCEPT ![t].pc = "c_join",
                                          ![t].taken = Unwrap(current_job.job)]
            /\ pscen' = pscen
            /\ polled' = [op |-> "none"]
       ELSE /\ UNCHANGED <<current_job, jobs>>
            /\ IF callers[t].op = "start_prefetch"
               THEN /\ callers' = [callers EXCEPT ![t].pc = "sp_spawn"]
                    /\ pscen' = pscen
                    /\ polled' = [op |-> "none"]
               ELSE /\ callers' = [callers EXCEPT ![t] = CallerIdle]
                    /\ pscen' = ScenReturn(t, None)
                    /\ polled' = [op |-> "none"]
    /\ UNCHANGED <<mgrVars, lruVars, batchVars>>

\* prefetch.rs:133-138: the worker is joined, the handle dropped, the job
\* slot unlocked, and cancel_current_job returns
Cancel_Join(t) ==
    /\ callers[t].pc = "c_join"
    /\ thread_joined(jobs[callers[t].taken])
    /\ current_job' = [current_job EXCEPT !.lock = None]
    /\ jobs' = [jobs EXCEPT ![callers[t].taken].cancel_returned = TRUE]
    /\ IF callers[t].op = "start_prefetch"
       THEN /\ callers' = [callers EXCEPT ![t].pc = "sp_spawn"]
            /\ pscen' = pscen
       ELSE /\ callers' = [callers EXCEPT ![t] = CallerIdle]
            /\ pscen' = ScenReturn(t, None)
    /\ polled' = [op |-> "none"]
    /\ UNCHANGED <<mgrVars, lruVars, batchVars>>

\* prefetch.rs:82-114: progress record, cancel flag, thread::spawn
Start_Spawn(t) ==
    /\ callers[t].pc = "sp_spawn"
    /\ jobs' = Append(jobs, NewJob(callers[t].job, callers[t].running))
    /\ callers' = [callers EXCEPT ![t].pc = "sp_store",
                                  ![t].spawned = Len(jobs) + 1]
    /\ polled' = [op |-> "none"]
    /\ UNCHANGED <<current_job, pscen, mgrVars, lruVars, batchVars>>

\* prefetch.rs:116-118: the handle is stored in the job slot, whatever the slot
\* held is dropped, and start_prefetch returns
Start_Store(t) ==
    /\ callers[t].pc = "sp_store"
    /\ current_job.lock = None
    /\ current_job' = [current_job EXCEPT !.job = Some(callers[t].spawned)]
    /\ callers' = [callers EXCEPT ![t] = CallerIdle]
    /\ pscen' = ScenReturn(t, None)
    /\ polled' = [op |-> "none"]
    /\ UNCHANGED <<jobs, mgrVars, lruVars, batchVars>>

\* a thread calls get_progress() (prefetch.rs:141-149): it gets the lock of
\* the job slot when no other thread holds it, and returns
Call_GetProgress(t) ==
    /\ callers[t].pc = "idle"
    /\ current_job.lock = None
    /\ polled' = [op |-> "none"]
    /\ pscen' = IF pscen.at = "new" \/ (pscen.at = "cancelled" /\ pscen.thread = t)
                THEN ScenReturn(t, get_progress(current_job.job, jobs))
                ELSE ScenCall(t, "get_progress")
    /\ UNCHANGED <<current_job, jobs, callers, mgrVars, lruVars, batchVars>>

\* a thread calls is_running() (prefetch.rs:152-160): it gets the lock of the
\* job slot when no other thread holds it, and returns
Call_IsRunning(t) ==
    /\ callers[t].pc = "idle"
    /\ current_job.lock = None
    /\ polled' = [op |-> "is_running",
                  ret |-> is_running(current_job.job, jobs)]
    /\ pscen' = ScenCall(t, "is_running")
    /\ UNCHANGED <<current_job, jobs, callers, mgrVars, lruVars, batchVars>>

\* prefetch.rs:223-230: before a chunk the flag is read; the loop is left when
\* it is set, otherwise the items of the chunk are handed to the pool
Worker_ChunkCheck(j) ==
    /\ j \in 1..Len(jobs)
    /\ jobs[j].pc = "chunk"
    /\ jobs' = [jobs EXCEPT ![j] =
                  IF jobs[j].cancel_flag
                  THEN [@ EXCEPT !.pc = "finish"]
                  ELSE [@ EXCEPT !.pc = "items",
                                 !.handed = @ + Len(chunk_of(jobs[j].order,
                                                             jobs[j].chunk)),
                                 !.items = [i \in 1..Len(chunk_of(jobs[j].order,
                                                                  jobs[j].chunk))
                                               |-> "todo"]]]
    /\ UNCHANGED <<current_job, callers, pscen, mgrVars, lruVars, batchVars>>
    /\ polled' = [op |-> "none"]

\* prefetch.rs:232-234: an item reads the flag and returns when it is set
Worker_ItemCheck(j, i) ==
    /\ j \in 1..Len(jobs)
    /\ jobs[j].pc = "items"
    /\ i \in 1..Len(jobs[j].items)
    /\ jobs[j].items[i] = "todo"
    /\ jobs' = [jobs EXCEPT ![j].items[i] =
                  IF jobs[j].cancel_flag THEN "done" ELSE "calling"]
    /\ UNCHANGED <<current_job, callers, pscen, mgrVars, lruVars, batchVars>>
    /\ polled' = [op |-> "none"]

\* prefetch.rs:236-248: get_or_generate and the counters
Worker_ItemCall(j, i) ==
    /\ j \in 1..Len(jobs)
    /\ jobs[j].pc = "items"
    /\ i \in 1..Len(jobs[j].items)
    /\ jobs[j].items[i] = "calling"
    /\ LET item == chunk_of(jobs[j].order, jobs[j].chunk)[i]
           r == get_or_generate([mem |-> mem, disk |-> disk],
                                jobs[j].job.file_paths[item[1] + 1],
                                jobs[j].job.tier, TRUE)
       IN /\ mem' = r.mem
          /\ disk' = r.disk
          /\ jobs' = [jobs EXCEPT
                ![j] = [count_result(jobs[j], r.ret.ok, item[2]) EXCEPT
                           !.items[i] = "update",
                           !.calls = @ + 1,
                           !.late_call = jobs[j].cancel_returned]]
    /\ UNCHANGED <<current_job, callers, pscen, config, done, lruVars,
                   batchVars>>
    /\ polled' = [op |-> "none"]

\* prefetch.rs:251-255: the counters are copied into the progress record
Worker_ItemUpdate(j, i) ==
    /\ j \in 1..Len(jobs)
    /\ jobs[j].pc = "items"
    /\ i \in 1..Len(jobs[j].items)
    /\ jobs[j].items[i] = "update"
    /\ jobs' = [jobs EXCEPT
          ![j].items[i] = "done",
          ![j].progress.completed_files = jobs[j].completed,
          ![j].progress.failed_files = jobs[j].failed,
          ![j].progress.viewport_completed = jobs[j].viewport_completed]
    /\ UNCHANGED <<current_job, callers, pscen, mgrVars, lruVars, batchVars>>
    /\ polled' = [op |-> "none"]

\* Mutant of Worker_ChunkEnd: the worker goes on to the next chunk without
\* waiting for the items of this one (for_each returning at once).
Worker_ChunkEnd_Early(j) ==
    /\ j \in 1..Len(jobs)
    /\ jobs[j].pc = "items"
    /\ jobs' = [jobs EXCEPT
          ![j].pc = IF jobs[j].chunk = chunk_count(jobs[j].order)
                    THEN "finish" ELSE "chunk",
          ![j].chunk = @ + 1,
          ![j].items = <<>>]
    /\ UNCHANGED <<current_job, callers, pscen, mgrVars, lruVars, batchVars>>
    /\ polled' = [op |-> "none"]

\* prefetch.rs:256-260: the par_iter of the chunk is over, the worker sleeps
\* and goes on to the next chunk, or leaves the loop after the last one
Worker_ChunkEnd(j) ==
    /\ j \in 1..Len(jobs)
    /\ jobs[j].pc = "items"
    /\ \A i \in 1..Len(jobs[j].items) : jobs[j].items[i] = "done"
    /\ jobs' = [jobs EXCEPT
          ![j].pc = IF jobs[j].chunk = chunk_count(jobs[j].order)
                    THEN "finish" ELSE "chunk",
          ![j].chunk = @ + 1,
          ![j].items = <<>>]
    /\ UNCHANGED <<current_job, callers, pscen, mgrVars, lruVars, batchVars>>
    /\ polled' = [op |-> "none"]

\* prefetch.rs:262-272: the record is marked finished, the counters are copied
\* unless the flag is set, and the thread returns
Worker_Finish(j) ==
    /\ j \in 1..Len(jobs)
    /\ jobs[j].pc = "finish"
    /\ jobs' = [jobs EXCEPT ![j].pc = "returned",
                            ![j].progress = finished_progress(jobs[j])]
    /\ UNCHANGED <<current_job, callers, pscen, mgrVars, lruVars, batchVars>>
    /\ polled' = [op |-> "none"]

\* a step of a thread inside start_prefetch or cancel_current_job
CallerStep(t) ==
    Cancel_Take(t) \/ Cancel_Join(t) \/ Start_Spawn(t) \/ Start_Store(t)

\* a step of the worker thread of job j
WorkerStep(j) ==
    \/ Worker_ChunkCheck(j)
    \/ \E i \in 1..chunk_size : Worker_ItemCheck(j, i)
    \/ \E i \in 1..chunk_size : Worker_ItemCall(j, i)
    \/ \E i \in 1..chunk_size : Worker_ItemUpdate(j, i)
    \/ Worker_ChunkEnd(j)
    \/ Worker_Finish(j)

\* the steps of a scheduler called from the threads T with the jobs J,
\* start_prefetch called max_jobs times at most
SchedulerNext(T, J, max_jobs) ==
    \/ \E t \in T, job \in J : Call_StartPrefetch(t, job, max_jobs)
    \/ \E t \in T : Call_Cancel(t)
    \/ \E t \in T : Call_GetProgress(t)
    \/ \E t \in T : Call_IsRunning(t)
    \/ \E t \in T : Cancel_Take(t)
    \/ \E t \in T : Cancel_Join(t)
    \/ \E t \in T : Start_Spawn(t)
    \/ \E t \in T : Start_Store(t)
    \/ \E j \in 1..MaxJobs : Worker_ChunkCheck(j)
    \/ \E j \in 1..MaxJobs, i \in 1..chunk_size : Worker_ItemCheck(j, i)
    \/ \E j \in 1..MaxJobs, i \in 1..chunk_size : Worker_ItemCall(j, i)
    \/ \E j \in 1..MaxJobs, i \in 1..chunk_size : Worker_ItemUpdate(j, i)
    \/ \E j \in 1..MaxJobs : Worker_ChunkEnd(j)
    \/ \E j \in 1..MaxJobs : Worker_Finish(j)

\* WorkerStep(j) is enabled exactly while the worker of job j is alive
WorkerAlive(j) == j \in Alive

\* the effect of WorkerStep(j): the worker's position changed
WorkerMoved(j) ==
    /\ j \in 1..Len(jobs)
    /\ \/ jobs'[j].pc # jobs[j].pc
       \/ jobs'[j].items # jobs[j].items
       \/ jobs'[j].chunk # jobs[j].chunk

\* WorkerAlive and WorkerMoved are the enabling condition and the effect of
\* WorkerStep (both hold of SpecPrefetch and SpecChunks)
WorkerAliveIsEnabled ==
    \A j \in 1..MaxJobs : WorkerAlive(j) <=> ENABLED <<WorkerStep(j)>>_vars
WorkerMovedIsStep ==
    [][\A j \in 1..MaxJobs : WorkerMoved(j) <=> WorkerStep(j)]_vars

\* WF_vars(WorkerStep(j)), written with WorkerAlive and WorkerMoved
WorkerFairness(j) ==
    ([]<>~WorkerAlive(j)) \/ ([]<><<WorkerMoved(j)>>_vars)

\* Threads are scheduled fairly: a thread inside start_prefetch or
\* cancel_current_job and every worker thread takes its next step when that
\* step stays possible.  Nothing is assumed about when callers make calls.
SchedulerFairness(T) ==
    /\ \A t \in T : WF_vars(CallerStep(t))
    /\ \A j \in 1..MaxJobs : WorkerFairness(j)

NextPrefetch == SchedulerNext(Callers, PrefetchJobs, MaxJobs)

SpecPrefetch == InitPrefetch /\ [][NextPrefetch]_vars

SpecPrefetchFair == SpecPrefetch /\ SchedulerFairness(Callers)

(***************************************************************************)
(* SpecChunks: the scheduler called from one thread, with a job of two     *)
(* chunks in which two files fail.                                         *)
(***************************************************************************)
ChunkCallers == {"t1"}

\* five files, the second and the fourth missing, the viewport at 1..2
ChunkJobs ==
    {[file_paths |-> <<"a.raw", "missing.raw", "a.raw", "missing.raw", "a.raw">>,
      tier |-> "micro", viewport_start |-> 1, viewport_end |-> 3]}

InitChunks ==
    /\ current_job = [job |-> None, lock |-> None]
    /\ jobs = <<>>
    /\ callers = [t \in ChunkCallers |-> CallerIdle]
    /\ pscen = [at |-> "new", thread |-> "none", ret |-> None]
    /\ polled = [op |-> "none"]
    /\ MgrUnused
    /\ LruUnused
    /\ BatchUnused

NextChunks == SchedulerNext(ChunkCallers, ChunkJobs, MaxChunkJobs)

SpecChunks == InitChunks /\ [][NextChunks]_vars

SpecChunksFair == SpecChunks /\ SchedulerFairness(ChunkCallers)

(***************************************************************************)
(* SpecViewports: the scheduler called from one thread with jobs built     *)
(* directly (the fields of PrefetchJob are public, prefetch.rs:18-23): one *)
(* whose viewport_start is above its viewport_end and one whose            *)
(* viewport_end is beyond the file list.                                   *)
(***************************************************************************)
ViewportJobs ==
    {[file_paths |-> <<"a.raw", "a.raw">>, tier |-> "micro",
      viewport_start |-> 2, viewport_end |-> 0],
     [file_paths |-> <<"a.raw">>, tier |-> "micro",
      viewport_start |-> 0, viewport_end |-> 2]}

NextViewports == SchedulerNext(ChunkCallers, ViewportJobs, MaxChunkJobs)

SpecViewports == InitChunks /\ [][NextViewports]_vars

(***************************************************************************)
(* SpecCalc: the pure functions applied to arguments drawn from bounded    *)
(* sets, one call in a behaviour, recorded with its arguments and result.  *)
(***************************************************************************)
\* image edges in pixels: around the two tier bounds, a long flat image, and
\* the sizes of test_resize_logic (generate.rs:251-267)
Edges == {1, 4, 80, 100, 299, 300, 301, 401, 800, 1000, 1600, 1601, 2000}

\* a list of n files (a job with no file that fails)
FileList(n) == [i \in 1..n |-> "a.raw"]

InitCalc ==
    /\ calc = [op |-> "new"]
    /\ race = <<>>
    /\ batch = [pc |-> "unused"]
    /\ swatch = [op |-> "unused"]
    /\ MgrUnused
    /\ LruUnused
    /\ PrefetchUnused

\* prefetch.rs:169-212 for a job over n files with the viewport given
Calc_PriorityOrder(n, viewport_start, viewport_end) ==
    /\ calc.op = "new"
    /\ calc' = [op |-> "priority_order", n |-> n,
                viewport_start |-> viewport_start,
                viewport_end |-> viewport_end,
                ret |-> priority_order([file_paths |-> FileList(n),
                                        tier |-> "micro",
                                        viewport_start |-> viewport_start,
                                        viewport_end |-> viewport_end])]
    /\ UNCHANGED <<race, batch, swatch, mgrVars, lruVars, prefetchVars>>

\* resize_image (generate.rs:138-159) on an image of the given size
Calc_Resize(width, height, tier, half_up) ==
    /\ calc.op = "new"
    /\ calc' = [op |-> "resize_image", width |-> width, height |-> height,
                tier |-> tier,
                ret |-> resize_image([width |-> width, height |-> height],
                                     tier, half_up)]
    /\ UNCHANGED <<race, batch, swatch, mgrVars, lruVars, prefetchVars>>

\* generate.rs:110-113: the decoded image of a Micro or Preview request is
\* resized and encoded
Calc_Encode(width, height, tier, half_up) ==
    /\ calc.op = "new"
    /\ tier # "loupe"
    /\ calc' = [op |-> "resize_and_encode", width |-> width,
                height |-> height, tier |-> tier,
                ret |-> resize_and_encode([width |-> width, height |-> height],
                                          tier, half_up)]
    /\ UNCHANGED <<race, batch, swatch, mgrVars, lruVars, prefetchVars>>

\* the spellings of two files, and what fs::metadata may answer for a file:
\* lengths that differ in the first or in the second byte, modification
\* times within one millisecond and in different ones
KeyPaths == {"a.raw", "./a.raw", "b.raw"}
KeyMetadata ==
    [len : {40, 41, 296}, modified : {1600000, 1600999, 1601000, 1700000}]

\* lib.rs:58-77: the key of a file is derived twice, the file and its
\* metadata being those of the first derivation or others
Calc_GenerateCacheKey(path1, metadata1, path2, metadata2) ==
    /\ calc.op = "new"
    /\ calc' = [op |-> "generate_cache_key",
                first |-> [path |-> path1, metadata |-> metadata1,
                           ret |-> key_of_metadata(path1, metadata1)],
                second |-> [path |-> path2, metadata |-> metadata2,
                            ret |-> key_of_metadata(path2, metadata2)]]
    /\ UNCHANGED <<race, batch, swatch, mgrVars, lruVars, prefetchVars>>

NextCalc ==
    \/ \E n \in 0..MaxFiles, viewport_start, viewport_end \in 0..(MaxFiles + 1) :
          Calc_PriorityOrder(n, viewport_start, viewport_end)
    \/ \E path1, path2 \in KeyPaths, metadata1, metadata2 \in KeyMetadata :
          Calc_GenerateCacheKey(path1, metadata1, path2, metadata2)
    \/ \E width, height \in Edges, tier \in Tiers, half_up \in BOOLEAN :
          Calc_Resize(width, height, tier, half_up)
    \/ \E width, height \in Edges, tier \in Tiers, half_up \in BOOLEAN :
          Calc_Encode(width, height, tier, half_up)

SpecCalc == InitCalc /\ [][NextCalc]_vars

(***************************************************************************)
(* SpecRace: one get_or_generate and one clear_all on a ThumbnailCache,    *)
(* each from its own thread and interleaved at the accesses to the memory  *)
(* caches and to the file system, followed by a later get_or_generate.     *)
(* race.dirs is the set of tier directories that exist; fs::remove_dir_all *)
(* empties and removes the tier directories one after the other, in the    *)
(* order read_dir lists them, and fails on a directory that got a file     *)
(* between the two.                                                        *)
(***************************************************************************)
RacePaths == {"a.raw"}

\* the orders in which read_dir may list the tier directories
RemovalOrders ==
    {o \in [1..3 -> Tiers] : \A i, j \in 1..3 : i # j => o[i] # o[j]}

\* the order of cache.rs:227-229 and of cache.rs:239
TierOrder == <<"micro", "preview", "loupe">>

InitRace ==
    /\ config = DefaultConfig
    /\ mem = NewMemory(DefaultConfig)
    /\ disk \in {EmptyDisk, EarlierDisk}
    /\ done = [op |-> "unused"]
    /\ race = [reader |-> [pc |-> "idle"], clear |-> [pc |-> "idle"],
               dirs |-> Tiers, later |-> None]
    /\ calc = [op |-> "unused"]
    /\ batch = [pc |-> "unused"]
    /\ swatch = [op |-> "unused"]
    /\ LruUnused
    /\ PrefetchUnused

RaceUnchanged == <<config, done, calc, batch, swatch, lruVars, prefetchVars>>

\* cache.rs:101-107: get_or_generate is called; the path exists and the key
\* is derived
Reader_Call(file_path, tier) ==
    /\ race.reader.pc = "idle"
    /\ path_exists(file_path)
    /\ race' = [race EXCEPT !.reader =
                    [pc |-> "get", path |-> file_path, tier |-> tier,
                     file_hash |-> OkValue(generate_cache_key(file_path))]]
    /\ UNCHANGED <<mem, disk, RaceUnchanged>>

\* cache.rs:84-87 (from 110): the lookup in the tier's memory cache
Reader_MemoryGet ==
    /\ race.reader.pc = "get"
    /\ LET r == race.reader
           memory == LruCache_get(mem[r.tier], r.file_hash)
       IN /\ mem' = [mem EXCEPT ![r.tier] = memory.c]
          /\ race' = [race EXCEPT !.reader =
                IF IsSome(memory.ret)
                THEN [pc |-> "returned", path |-> r.path, tier |-> r.tier,
                      file_hash |-> r.file_hash,
                      ret |-> Ok(Unwrap(memory.ret))]
                ELSE [r EXCEPT !.pc = "read"]]
    /\ UNCHANGED <<disk, RaceUnchanged>>

\* cache.rs:90-91: fs::read of the disk file; cache.rs:115-116: on a miss
\* the thumbnail is generated
Reader_DiskRead ==
    /\ race.reader.pc = "read"
    /\ LET r == race.reader
           data == with_context(generate_thumbnail(r.path, r.tier),
                                "Failed to generate thumbnail")
       IN race' = [race EXCEPT !.reader =
             IF r.file_hash \in DOMAIN disk[r.tier]
             THEN [pc |-> "promote", path |-> r.path, tier |-> r.tier,
                   file_hash |-> r.file_hash,
                   data |-> disk[r.tier][r.file_hash]]
             ELSE IF ~data.ok
             THEN [pc |-> "returned", path |-> r.path, tier |-> r.tier,
                   file_hash |-> r.file_hash, ret |-> data]
             ELSE [pc |-> "insert", path |-> r.path, tier |-> r.tier,
                   file_hash |-> r.file_hash, data |-> OkValue(data)]]
    /\ UNCHANGED <<mem, disk, RaceUnchanged>>

\* cache.rs:92-94: the file read is put into the memory cache and returned
Reader_Promote ==
    /\ race.reader.pc = "promote"
    /\ LET r == race.reader
       IN /\ mem' = [mem EXCEPT ![r.tier] =
                        LruCache_insert(@, r.file_hash, r.data, Len(r.data))]
          /\ race' = [race EXCEPT !.reader =
                [pc |-> "returned", path |-> r.path, tier |-> r.tier,
                 file_hash |-> r.file_hash, ret |-> Ok(r.data)]]
    /\ UNCHANGED <<disk, RaceUnchanged>>

\* cache.rs:127-128 (from 119): store puts the thumbnail into the memory
\* cache
Reader_Insert ==
    /\ race.reader.pc = "insert"
    /\ LET r == race.reader
       IN /\ mem' = [mem EXCEPT ![r.tier] =
                        LruCache_insert(@, r.file_hash, r.data, Len(r.data))]
          /\ race' = [race EXCEPT !.reader.pc = "write"]
    /\ UNCHANGED <<disk, RaceUnchanged>>

\* cache.rs:131-133: fs::write of the disk file, which fails when the tier
\* directory does not exist; cache.rs:119-121
Reader_Write ==
    /\ race.reader.pc = "write"
    /\ LET r == race.reader
       IN IF r.tier \in race.dirs
          THEN /\ disk' = [disk EXCEPT ![r.tier] =
                              MapInsert(@, r.file_hash, r.data)]
               /\ race' = [race EXCEPT !.reader =
                     [pc |-> "returned", path |-> r.path, tier |-> r.tier,
                      file_hash |-> r.file_hash, ret |-> Ok(r.data)]]
          ELSE /\ disk' = disk
               /\ race' = [race EXCEPT !.reader =
                     [pc |-> "returned", path |-> r.path, tier |-> r.tier,
                      file_hash |-> r.file_hash,
                      ret |-> with_context(Err("io: write"),
                                           "Failed to write cache file")]]
    /\ UNCHANGED <<mem, RaceUnchanged>>

\* cache.rs:225: clear_all is called; order is the order in which read_dir
\* will list the tier directories
Clear_Call(order) ==
    /\ race.clear.pc = "idle"
    /\ race' = [race EXCEPT !.clear =
                    [pc |-> "memory", i |-> 1, order |-> order]]
    /\ UNCHANGED <<mem, disk, RaceUnchanged>>

\* cache.rs:227-229: the memory caches are cleared one after the other
Clear_Memory ==
    /\ race.clear.pc = "memory"
    /\ LET c == race.clear
       IN /\ mem' = [mem EXCEPT ![TierOrder[c.i]] = LruCache_clear(@)]
          /\ race' = [race EXCEPT !.clear =
                IF c.i < Len(TierOrder)
                THEN [c EXCEPT !.i = @ + 1]
                ELSE [c EXCEPT !.pc = "unlink", !.i = 1]]
    /\ UNCHANGED <<disk, RaceUnchanged>>

\* cache.rs:233 (fs::remove_dir_all): the files listed in the next tier
\* directory are removed
Clear_Unlink ==
    /\ race.clear.pc = "unlink"
    /\ LET c == race.clear
       IN /\ disk' = [disk EXCEPT ![c.order[c.i]] = EmptyMap]
          /\ race' = [race EXCEPT !.clear.pc = "rmdir"]
    /\ UNCHANGED <<mem, RaceUnchanged>>

\* cache.rs:233-234 (fs::remove_dir_all): the tier directory is removed,
\* which fails when it is not empty, and clear_all returns the error
Clear_Rmdir ==
    /\ race.clear.pc = "rmdir"
    /\ LET c == race.clear
           d == c.order[c.i]
       IN race' =
             IF disk[d] # EmptyMap
             THEN [race EXCEPT !.clear =
                     [pc |-> "returned", i |-> c.i, order |-> c.order,
                      ret |-> with_context(Err("io: directory not empty"),
                                           "Failed to remove cache directory")]]
             ELSE [race EXCEPT
                     !.dirs = @ \ {d},
                     !.clear = IF c.i < 3
                               THEN [c EXCEPT !.pc = "unlink", !.i = @ + 1]
                               ELSE [c EXCEPT !.pc = "mkdir", !.i = 1]]
    /\ UNCHANGED <<mem, disk, RaceUnchanged>>

\* cache.rs:233-242: the emptied cache directory is removed and created
\* again (with the first step), then its tier directories one after the
\* other, and clear_all returns
Clear_Mkdir ==
    /\ race.clear.pc = "mkdir"
    /\ LET c == race.clear
       IN race' = [race EXCEPT
             !.dirs = @ \cup {TierOrder[c.i]},
             !.clear = IF c.i < Len(TierOrder)
                       THEN [c EXCEPT !.i = @ + 1]
                       ELSE [pc |-> "returned", i |-> c.i, order |-> c.order,
                             ret |-> Ok("unit")]]
    /\ UNCHANGED <<mem, disk, RaceUnchanged>>

\* both calls have returned
RaceOver == race.reader.pc = "returned" /\ race.clear.pc = "returned"

\* cache.rs:101-122: after both calls a thread calls get_or_generate for the
\* path of the first call
Later_GetOrGenerate(tier) ==
    /\ RaceOver
    /\ race.later = None
    /\ LET r == get_or_generate([mem |-> mem, disk |-> disk],
                                race.reader.path, tier, tier \in race.dirs)
       IN /\ mem' = r.mem
          /\ disk' = r.disk
          /\ race' = [race EXCEPT !.later =
                          Some([tier |-> tier, ret |-> r.ret,
                                had_memory |-> race.reader.file_hash
                                    \in DOMAIN mem[race.reader.tier].data,
                                had_disk |-> race.reader.file_hash
                                    \in DOMAIN disk[race.reader.tier]])]
    /\ UNCHANGED RaceUnchanged

NextRace ==
    \/ \E file_path \in RacePaths, tier \in Tiers : Reader_Call(file_path, tier)
    \/ Reader_MemoryGet
    \/ Reader_DiskRead
    \/ Reader_Promote
    \/ Reader_Insert
    \/ Reader_Write
    \/ \E order \in RemovalOrders : Clear_Call(order)
    \/ Clear_Memory
    \/ Clear_Unlink
    \/ Clear_Rmdir
    \/ Clear_Mkdir
    \/ \E tier \in Tiers : Later_GetOrGenerate(tier)

SpecRace == InitRace /\ [][NextRace]_vars

(***************************************************************************)
(* SpecPair: two get_or_generate calls for one path on a ThumbnailCache    *)
(* that holds nothing, one from the thread of an on-demand request and one *)
(* from a prefetch worker (prefetch.rs:237), interleaved at the accesses   *)
(* to the memory cache and to the file system.  fs::write (cache.rs:132)   *)
(* creates or truncates the file and then writes the bytes: between the    *)
(* two the file exists and is empty.  race.readers[r] is the position of   *)
(* the call of thread r.                                                   *)
(***************************************************************************)
PairThreads == {"demand", "worker"}

InitPair ==
    /\ config = DefaultConfig
    /\ mem = NewMemory(DefaultConfig)
    /\ disk = EmptyDisk
    /\ done = [op |-> "unused"]
    /\ race = [readers |-> [r \in PairThreads |-> [pc |-> "idle"]]]
    /\ calc = [op |-> "unused"]
    /\ batch = [pc |-> "unused"]
    /\ swatch = [op |-> "unused"]
    /\ LruUnused
    /\ PrefetchUnused

\* the call of thread r has returned ret
PairReturned(r, ret) ==
    [pc |-> "returned", path |-> r.path, tier |-> r.tier,
     file_hash |-> r.file_hash, ret |-> ret]

\* cache.rs:101-107: get_or_generate is called; the path exists and the key
\* is derived
Pair_Call(t, file_path, tier) ==
    /\ race.readers[t].pc = "idle"
    /\ path_exists(file_path)
    /\ race' = [race EXCEPT !.readers[t] =
                    [pc |-> "get", path |-> file_path, tier |-> tier,
                     file_hash |-> OkValue(generate_cache_key(file_path))]]
    /\ UNCHANGED <<mem, disk, RaceUnchanged>>

\* cache.rs:84-87 (from 110): the lookup in the tier's memory cache
Pair_MemoryGet(t) ==
    /\ race.readers[t].pc = "get"
    /\ LET r == race.readers[t]
           memory == LruCache_get(mem[r.tier], r.file_hash)
       IN /\ mem' = [mem EXCEPT ![r.tier] = memory.c]
          /\ race' = [race EXCEPT !.readers[t] =
                IF IsSome(memory.ret)
                THEN PairReturned(r, Ok(Unwrap(memory.ret)))
                ELSE [r EXCEPT !.pc = "read"]]
    /\ UNCHANGED <<disk, RaceUnchanged>>

\* cache.rs:90-91: fs::read of the disk file, which returns what the file
\* holds at that moment; cache.rs:115-116: on a miss the thumbnail is
\* generated
Pair_DiskRead(t) ==
    /\ race.readers[t].pc = "read"
    /\ LET r == race.readers[t]
           data == with_context(generate_thumbnail(r.path, r.tier),
                                "Failed to generate thumbnail")
       IN race' = [race EXCEPT !.readers[t] =
             IF r.file_hash \in DOMAIN disk[r.tier]
             THEN [pc |-> "promote", path |-> r.path, tier |-> r.tier,
                   file_hash |-> r.file_hash,
                   data |-> disk[r.tier][r.file_hash]]
             ELSE IF ~data.ok
             THEN PairReturned(r, data)
             ELSE [pc |-> "insert", path |-> r.path, tier |-> r.tier,
                   file_hash |-> r.file_hash, data |-> OkValue(data)]]
    /\ UNCHANGED <<mem, disk, RaceUnchanged>>

\* cache.rs:92-94: the file read is put into the memory cache and returned
Pair_Promote(t) ==
    /\ race.readers[t].pc = "promote"
    /\ LET r == race.readers[t]
       IN /\ mem' = [mem EXCEPT ![r.tier] =
                        LruCache_insert(@, r.file_hash, r.data, Len(r.data))]
          /\ race' = [race EXCEPT !.readers[t] = PairReturned(r, Ok(r.data))]
    /\ UNCHANGED <<disk, RaceUnchanged>>

\* cache.rs:127-128 (from 119): store puts the thumbnail into the memory
\* cache
Pair_Insert(t) ==
    /\ race.readers[t].pc = "insert"
    /\ LET r == race.readers[t]
       IN /\ mem' = [mem EXCEPT ![r.tier] =
                        LruCache_insert(@, r.file_hash, r.data, Len(r.data))]
          /\ race' = [race EXCEPT !.readers[t].pc = "create"]
    /\ UNCHANGED <<disk, RaceUnchanged>>

\* File::create inside fs::write (cache.rs:132): the file exists and is empty
truncated(files, file_hash) == MapInsert(files, file_hash, <<>>)

\* cache.rs:131-132: fs::write opens the file, creating or truncating it
Pair_Create(t) ==
    /\ race.readers[t].pc = "create"
    /\ LET r == race.readers[t]
       IN /\ disk' = [disk EXCEPT ![r.tier] = truncated(@, r.file_hash)]
          /\ race' = [race EXCEPT !.readers[t].pc = "fill"]
    /\ UNCHANGED <<mem, RaceUnchanged>>

\* cache.rs:132-135, 121: fs::write writes the bytes, store and
\* get_or_generate return
Pair_Fill(t) ==
    /\ race.readers[t].pc = "fill"
    /\ LET r == race.readers[t]
       IN /\ disk' = [disk EXCEPT ![r.tier] =
                         MapInsert(@, r.file_hash, r.data)]
          /\ race' = [race EXCEPT !.readers[t] = PairReturned(r, Ok(r.data))]
    /\ UNCHANGED <<mem, RaceUnchanged>>

NextPair ==
    \/ \E t \in PairThreads, file_path \in RacePaths, tier \in Tiers :
          Pair_Call(t, file_path, tier)
    \/ \E t \in PairThreads : Pair_MemoryGet(t)
    \/ \E t \in PairThreads : Pair_DiskRead(t)
    \/ \E t \in PairThreads : Pair_Promote(t)
    \/ \E t \in PairThreads : Pair_Insert(t)
    \/ \E t \in PairThreads : Pair_Create(t)
    \/ \E t \in PairThreads : Pair_Fill(t)

SpecPair == InitPair /\ [][NextPair]_vars


(***************************************************************************)
(* Properties of the LRU cache (checked under SpecLru unless said).        *)
(***************************************************************************)
RECURSIVE SumSizes(_)
SumSizes(data) ==
    IF DOMAIN data = {} THEN 0
    ELSE LET k == CHOOSE x \in DOMAIN data : TRUE
         IN data[k].byte_size + SumSizes(MapRemove(data, k))

\* C1: after each insert returns, total_bytes() is at most the larger of the
\* budget and the largest single item inserted so far.
C1_BudgetInvariant ==
    last.op = "insert" =>
        total_bytes(cache) <= Max(max_bytes(cache), largest)

\* an insert has returned with several entries retained, after an item larger
\* than the budget had been inserted
C1_Witness ==
    /\ last.op = "insert"
    /\ largest > max_bytes(cache)
    /\ len(cache) >= 2

TotalIsSum == total_bytes(cache) = SumSizes(cache.data)

\* the step is an insert of a key the cache holds
Reinsert == last'.op = "insert" /\ last'.key \in DOMAIN cache.data

ReinsertDelta ==
    /\ total_bytes(cache') =
          total_bytes(cache) - cache.data[last'.key].byte_size
              + last'.byte_size
    /\ len(cache') = len(cache)

ClearEmpties ==
    last'.op = "clear" => len(cache') = 0 /\ total_bytes(cache') = 0

\* C2 as stated: total_bytes is the sum of the retained entries' sizes in
\* every state; every re-insert of an existing key changes total_bytes by the
\* difference of the sizes and keeps len(); clear empties the cache.
C2_Original ==
    /\ []TotalIsSum
    /\ [][(Reinsert => ReinsertDelta) /\ ClearEmpties]_vars

\* C2 as amended: the same, the re-insert clause only for a re-insert whose
\* new total stays within max_bytes (otherwise the insert evicts).
C2_TotalIsSum ==
    /\ []TotalIsSum
    /\ [][/\ (/\ Reinsert
              /\ total_bytes(cache) - cache.data[last'.key].byte_size
                    + last'.byte_size <= max_bytes(cache))
             => ReinsertDelta
          /\ ClearEmpties]_vars

\* a key held at 5 bytes has been re-inserted at 15 bytes, nothing evicted
C2_Witness ==
    /\ last.op = "insert"
    /\ last.replaced = Some(5)
    /\ last.byte_size = 15
    /\ len(cache) = 2
    /\ total_bytes(cache) = 20

\* C3: an insert whose size alone exceeds max_bytes leaves exactly that entry
\* in the cache, and a following get returns its value.
C3_OversizedAccepted ==
    (last.op = "insert" /\ last.byte_size > max_bytes(cache)) =>
        /\ len(cache) = 1
        /\ total_bytes(cache) = last.byte_size
        /\ LruCache_get(cache, last.key).ret = Some(last.value)

\* C4 as stated: with budget 15, after the recency scenario exactly B has been
\* evicted.
C4_Original ==
    (scen = "ABCaD" /\ max_bytes(cache) = 15) =>
        DOMAIN cache.data = {"A", "C", "D"}

\* C4 as amended: with budget 25 (the budget of test_lru_ordering), after the
\* recency scenario exactly B has been evicted.
C4_RecencyScenario ==
    (scen = "ABCaD" /\ max_bytes(cache) = 25) =>
        DOMAIN cache.data = {"A", "C", "D"}

C4_Witness == scen = "ABCaD" /\ max_bytes(cache) = 25

(***************************************************************************)
(* Properties of recorded sizes (checked under SpecAll).                   *)
(***************************************************************************)
SizeIsLength(c) ==
    \A k \in DOMAIN c.data : c.data[k].byte_size = Len(c.data[k].value)

\* C8 as stated: every entry of every LRU cache records the length of its
\* value, however it was inserted.
C8_Original ==
    /\ SizeIsLength(cache)
    /\ \A t \in Tiers : SizeIsLength(mem[t])

\* C8 as amended: an entry records the byte_size its caller passed to insert;
\* that is the length of the value for every entry of the manager's caches
\* (store and disk back-fill pass data.len()).
C8_RecordedSize ==
    /\ \A t \in Tiers : SizeIsLength(mem[t])
    /\ (last.op = "insert" /\ last.key \in DOMAIN cache.data) =>
           /\ cache.data[last.key].byte_size = last.byte_size
           /\ cache.data[last.key].value = last.value

\* a disk back-fill has just put an entry in a memory cache that also holds
\* an entry put there by store
C8_Witness ==
    /\ done.op = "get"
    /\ done.disk_read
    /\ done.key \in DOMAIN mem[done.tier].data
    /\ len(mem[done.tier]) = 2

(***************************************************************************)
(* Properties of the cache manager (checked under Spec).                   *)
(***************************************************************************)
\* the key of the file a get_or_generate call was made for
KeyOf(path) == OkValue(generate_cache_key(path))

\* C5: whenever get_or_generate returns successfully, the tier's memory cache
\* and the tier's disk file both hold the key with the returned bytes.
C5_WriteThrough ==
    (done.op = "get_or_generate" /\ done.ret.ok) =>
        LET k == KeyOf(done.path)
            t == done.tier
        IN /\ k \in DOMAIN mem[t].data
           /\ mem[t].data[k].value = OkValue(done.ret)
           /\ k \in DOMAIN disk[t]
           /\ disk[t][k] = OkValue(done.ret)

\* C6: get returns the memory entry on a memory hit without reading the disk;
\* on a memory miss with the disk file present it returns the file's bytes and
\* leaves the key in the memory cache, so that a second get is a memory hit;
\* it returns nothing only when neither tier holds the key.
C6_GetBackfills ==
    [][done'.op = "get" =>
          LET k == done'.key
              t == done'.tier
              now == [mem |-> mem', disk |-> disk']
          IN /\ k \in DOMAIN mem[t].data =>
                  /\ done'.ret = Some(mem[t].data[k].value)
                  /\ ~done'.disk_read
             /\ (k \notin DOMAIN mem[t].data /\ k \in DOMAIN disk[t]) =>
                  /\ done'.ret = Some(disk[t][k])
                  /\ k \in DOMAIN mem'[t].data
                  /\ ~get(now, k, t).disk_read
             /\ done'.ret = None <=>
                  (k \notin DOMAIN mem[t].data /\ k \notin DOMAIN disk[t])
    ]_vars

\* C7: a disk file, once written, stays with its bytes through every call
\* other than clear_all, and every get of its key and tier returns those
\* bytes.
C7_DiskKept ==
    [][\A t \in Tiers : \A k \in DOMAIN disk[t] :
          /\ done'.op # "clear_all" =>
                (k \in DOMAIN disk'[t] /\ disk'[t][k] = disk[t][k])
          /\ (done'.op = "get" /\ done'.key = k /\ done'.tier = t) =>
                done'.ret = Some(disk[t][k])
    ]_vars

\* a get has been served from the disk file after the key's memory entry was
\* evicted by the insert of another key
C7_Witness ==
    /\ done.op = "get"
    /\ done.disk_read
    /\ IsSome(done.ret)
    /\ config = SmallConfig
    /\ done.tier = "micro"
    /\ mem["micro"].access_counter = 3

\* C9: get_or_generate on a path that does not exist fails with the not-found
\* error, does not run the derivation pipeline and leaves every memory cache
\* and every disk directory as it was.
C9_NotFound ==
    [][(done'.op = "get_or_generate" /\ ~path_exists(done'.path)) =>
          /\ done'.ret = Err("File does not exist")
          /\ ~done'.pipeline
          /\ mem' = mem
          /\ disk' = disk
    ]_vars

\* get_or_generate has failed on the missing path while a memory cache and a
\* disk directory hold an entry
C9_Witness ==
    /\ done.op = "get_or_generate"
    /\ done.path = "missing.raw"
    /\ \E t \in Tiers : len(mem[t]) > 0 /\ DOMAIN disk[t] # {}

\* C10: when the pipeline fails for a key that neither tier holds,
\* get_or_generate returns that error and neither the memory cache nor the
\* disk directory of the tier gains an entry for the key.
C10_PipelineFailure ==
    [][(/\ done'.op = "get_or_generate"
        /\ path_exists(done'.path)
        /\ KeyOf(done'.path) \notin DOMAIN mem[done'.tier].data
        /\ KeyOf(done'.path) \notin DOMAIN disk[done'.tier]
        /\ ~generate_thumbnail(done'.path, done'.tier).ok) =>
          /\ ~done'.ret.ok
          /\ done'.ret.err = generate_thumbnail(done'.path, done'.tier).err
          /\ done'.pipeline
          /\ KeyOf(done'.path) \notin DOMAIN mem'[done'.tier].data
          /\ KeyOf(done'.path) \notin DOMAIN disk'[done'.tier]
          /\ mem' = mem
          /\ disk' = disk
    ]_vars

\* the three ways the pipeline fails have each been met by get_or_generate;
\* here the one that fails last, in decoding
C10_Witness ==
    /\ done.op = "get_or_generate"
    /\ done.pipeline
    /\ ~done.ret.ok
    /\ done.ret.err = "decode"
    /\ done.path = "corrupt.raw"

(***************************************************************************)
(* Properties of generate_batch (checked under SpecBatch).                 *)
(***************************************************************************)
BatchReturned == batch.pc = "returned"
BatchN == Len(batch.file_paths)
\* the positions of the input list that name a nonexistent file
BatchNonexistent == {i \in 1..BatchN : ~path_exists(batch.file_paths[i])}
\* every other path of the input generates successfully: its derivation
\* succeeds and the write of its cache file did not fail
BatchOthersGenerate ==
    \A i \in (1..BatchN) \ BatchNonexistent :
        /\ generate_thumbnail(batch.file_paths[i], batch.tier).ok
        /\ Unwrap(batch.items[i].result).err # "io: write"
BatchDistinct ==
    \A i, j \in 1..BatchN :
        batch.file_paths[i] = batch.file_paths[j] => i = j
\* the batch returned successfully with n per-path results, m of them errors
BatchCounts(n, m) ==
    /\ Unwrap(batch.ret).ok
    /\ LET results == OkValue(Unwrap(batch.ret))
       IN /\ Cardinality(DOMAIN results) = n
          /\ Cardinality({p \in DOMAIN results : ~results[p].ok}) = m

\* C11 as stated: for any input list of N paths of which M are nonexistent,
\* the others generating successfully, generate_batch returns successfully with
\* N per-path results, exactly M of them errors.
C11_Original ==
    BatchReturned /\ BatchOthersGenerate
        => BatchCounts(BatchN, Cardinality(BatchNonexistent))

\* C11 (amended): for any input list of N pairwise distinct paths of which M
\* are nonexistent, the others generating successfully, generate_batch returns
\* successfully with N per-path results, exactly M of them errors: every
\* nonexistent path maps to an error and every other path to the disk path of
\* its thumbnail, whatever its siblings did.
C11_BatchResilience ==
    BatchReturned /\ BatchOthersGenerate /\ BatchDistinct
        => /\ BatchCounts(BatchN, Cardinality(BatchNonexistent))
           /\ \A i \in 1..BatchN :
                LET result == OkValue(Unwrap(batch.ret))[batch.file_paths[i]]
                IN IF i \in BatchNonexistent THEN ~result.ok
                   ELSE result =
                          Ok(get_disk_cache_path(
                                OkValue(generate_cache_key(batch.file_paths[i])),
                                batch.tier))

\* a batch of distinct paths, one of them nonexistent, has returned
C11_Witness ==
    /\ BatchReturned /\ BatchOthersGenerate /\ BatchDistinct
    /\ BatchN = MaxBatch
    /\ Cardinality(BatchNonexistent) = 1

\* C12: generate_batch over N paths invokes progress_callback exactly N times,
\* once after each item completes whether it succeeded or failed, every time
\* with total_count = N, and the completed_count arguments are exactly the
\* values 1..N, each used once, under any interleaving of the parallel items.
C12_ProgressCallback ==
    /\ batch.pc \in {"running", "returned"} =>
          /\ Len(batch.calls) =
                Cardinality({i \in 1..BatchN : batch.items[i].pc = "done"})
          /\ \A i \in 1..BatchN :
                batch.items[i].pc = "done" =>
                    /\ IsSome(batch.items[i].result)
                    /\ \E k \in 1..Len(batch.calls) :
                          batch.calls[k] = <<batch.items[i].current, BatchN>>
          /\ \A k \in 1..Len(batch.calls) : batch.calls[k][2] = BatchN
          /\ \A k, l \in 1..Len(batch.calls) :
                batch.calls[k][1] = batch.calls[l][1] => k = l
    /\ BatchReturned =>
          /\ Len(batch.calls) = BatchN
          /\ {batch.calls[k][1] : k \in 1..BatchN} = 1..BatchN

\* a batch of several items, one of them failed, has returned after its
\* callbacks ran in the reverse order of its counter increments
C12_Witness ==
    /\ BatchReturned
    /\ BatchN = MaxBatch
    /\ \E i \in 1..BatchN : ~Unwrap(batch.items[i].result).ok
    /\ batch.calls[1][1] = BatchN
    /\ batch.calls[BatchN][1] = 1

(***************************************************************************)
(* Properties of the color swatches (checked under SpecSwatch).            *)
(***************************************************************************)
\* the embedded preview of the file cannot be extracted, or does not decode
SwatchFails(file_path) ==
    \/ ~exiftool(file_path, "PreviewImage").success
    \/ exiftool(file_path, "PreviewImage").stdout = <<>>
    \/ exiftool(file_path, "PreviewImage").stdout[1] # 255
\* the file's preview decodes to an image without pixels
SwatchDegenerate(file_path) ==
    /\ ~SwatchFails(file_path)
    /\ \/ exiftool(file_path, "PreviewImage").stdout[2] = 0
       \/ exiftool(file_path, "PreviewImage").stdout[3] = 0

\* C13: get_color_swatches never fails: for any list of paths it returns
\* successfully with a swatch for every input path, and every path whose
\* extraction or decoding failed maps to the neutral gray (128,128,128).
C13_SwatchesNeverFail ==
    swatch.op = "get_color_swatches" /\ swatch.pc = "returned" =>
        /\ swatch.ret.ok
        /\ \A i \in 1..Len(swatch.paths) :
              /\ swatch.paths[i] \in DOMAIN OkValue(swatch.ret)
              /\ SwatchFails(swatch.paths[i]) =>
                    OkValue(swatch.ret)[swatch.paths[i]] =
                        [r |-> 128, g |-> 128, b |-> 128]

\* get_color_swatches has returned for a list with a path that failed and a
\* path that gave a sampled, non-gray swatch
C13_Witness ==
    /\ swatch.op = "get_color_swatches"
    /\ swatch.pc = "returned"
    /\ \E i, j \in 1..Len(swatch.paths) :
          /\ SwatchFails(swatch.paths[i])
          /\ ~SwatchFails(swatch.paths[j])
          /\ OkValue(swatch.ret)[swatch.paths[j]] #
                [r |-> 128, g |-> 128, b |-> 128]

\* C14 as stated: extract_color_swatch(path) called directly returns the
\* neutral gray fallback, not an error, whenever extraction or decoding fails
\* or zero pixels are sampled.
C14_Original ==
    /\ swatch.op = "extract_color_swatch"
    /\ SwatchFails(swatch.path) \/ SwatchDegenerate(swatch.path)
    => swatch.ret = Ok([r |-> 128, g |-> 128, b |-> 128])

\* C14 (amended): extract_color_swatch(path) called directly returns the
\* neutral gray fallback, not an error, whenever zero pixels are sampled; when
\* extraction or decoding fails it returns that error to its caller.
C14_DirectSwatch ==
    swatch.op = "extract_color_swatch" =>
        /\ SwatchDegenerate(swatch.path) =>
              swatch.ret = Ok([r |-> 128, g |-> 128, b |-> 128])
        /\ SwatchFails(swatch.path) => ~swatch.ret.ok
        /\ ~SwatchFails(swatch.path) => swatch.ret.ok

\* extract_color_swatch has returned the error of a preview that does not
\* decode
C14_Witness ==
    /\ swatch.op = "extract_color_swatch"
    /\ SwatchFails(swatch.path)
    /\ ~swatch.ret.ok
    /\ swatch.ret.context # <<>>

\* extract_color_swatch has returned the gray fallback for a degenerate image
C14_WitnessDegenerate ==
    /\ swatch.op = "extract_color_swatch"
    /\ SwatchDegenerate(swatch.path)
    /\ swatch.ret.ok

C16_SingleActiveJob == Cardinality(Alive) <= 1

\* C17: when start_prefetch(J2) is called while job J1 is running, J1's
\* progress record is cancelled and J1's worker has returned before J2's
\* worker makes its first get_or_generate call.
C17_CancelBeforeNext ==
    \A j2 \in 1..Len(jobs) :
        jobs[j2].calls > 0 =>
            \A j1 \in jobs[j2].running_at_call :
                /\ jobs[j1].progress.is_cancelled
                /\ jobs[j1].pc = "returned"

\* C18: after start_prefetch(job) followed immediately by
\* cancel_current_job(), get_progress() returns a snapshot of that job whose
\* is_cancelled is true and whose completed_files is less than total_files.
C18_CancelScenario ==
    pscen.at = "queried" =>
        /\ IsSome(pscen.ret)
        /\ Unwrap(pscen.ret).is_cancelled
        /\ Unwrap(pscen.ret).completed_files < Unwrap(pscen.ret).total_files

\* C19: once cancel_current_job() has returned, the job that it took from the
\* slot has terminated its worker and makes no further get_or_generate call
\* (the only place where a worker inserts into a memory cache or writes a
\* cache file).
C19_NoLeakAfterCancel ==
    \A j \in 1..Len(jobs) :
        jobs[j].cancel_returned =>
            /\ jobs[j].pc = "returned"
            /\ ~jobs[j].late_call

\* a cancel_current_job has returned for a job that it stopped before the
\* worker had made its call
C19_Witness ==
    \E j \in 1..Len(jobs) :
        /\ jobs[j].cancel_returned
        /\ jobs[j].calls = 0
        /\ jobs[j].progress.total_files > 0

\* no start_prefetch has been called on the scheduler
NewScheduler ==
    /\ jobs = <<>>
    /\ current_job.job = None
    /\ \A t \in DOMAIN callers : callers[t].op # "start_prefetch"

\* C20: is_running() returns true if and only if the slot holds a job whose
\* progress is neither finished nor cancelled; on a new scheduler is_running()
\* is false and get_progress() returns nothing.
C20_IsRunning ==
    /\ polled.op = "is_running" =>
          (polled.ret <=>
              \E j \in 1..Len(jobs) :
                  /\ current_job.job = Some(j)
                  /\ ~jobs[j].progress.is_finished
                  /\ ~jobs[j].progress.is_cancelled)
    /\ polled.op = "is_running" /\ NewScheduler => ~polled.ret
    /\ pscen.at = "queried_new" => pscen.ret = None

\* is_running has returned true, for a job in the slot whose worker is alive
C20_Witness ==
    /\ polled.op = "is_running"
    /\ polled.ret
    /\ Unwrap(current_job.job) \in Alive

\* is_running has returned false for the finished job in the slot
C20_WitnessFinished ==
    /\ polled.op = "is_running"
    /\ ~polled.ret
    /\ IsSome(current_job.job)

\* the threads that wait in cancel_current_job for a worker that has not
\* returned, holding the lock of the job slot (prefetch.rs:123, 135)
JoinPending ==
    {u \in DOMAIN callers :
        /\ callers[u].pc = "c_join"
        /\ current_job.lock = Some(u)
        /\ ~thread_joined(jobs[callers[u].taken])}

\* C21: get_progress() and is_running() are non-blocking reads: a call can
\* complete in every state without waiting for a worker thread to make
\* progress, including while another thread is inside cancel_current_job or
\* start_prefetch waiting to join the previous job's worker.
C21_NonBlockingReads ==
    \A t \in DOMAIN callers :
        callers[t].pc = "idle" =>
            /\ JoinPending = {}
            /\ ENABLED Call_GetProgress(t)
            /\ ENABLED Call_IsRunning(t)

\* C23: once a chunk has started, every item of that chunk is processed
\* through get_or_generate even if the cancellation flag is set while the
\* chunk is running: when the worker is between chunks or past the loop, it
\* has made one call for every item of the chunks it started.
C23_ChunkBoundaryOnly ==
    \A j \in 1..Len(jobs) :
        jobs[j].pc \in {"chunk", "finish", "returned"} =>
            jobs[j].calls = jobs[j].handed

(***************************************************************************)
(* Properties of the pure functions (checked under SpecCalc).              *)
(***************************************************************************)
\* the order the claim describes for n files and the viewport vs..ve-1: the
\* viewport, then the p-th element outside it, alternating sides while both
\* last and then the rest of the longer side
ClaimedOrder(n, vs, ve) ==
    LET before == vs
        after == n - ve
        both == Min(before, after)
        outside(p) ==
            IF p <= 2 * both
            THEN (IF p % 2 = 1 THEN vs - (p + 1) \div 2 ELSE ve + p \div 2 - 1)
            ELSE IF before > after THEN vs - (p - after)
            ELSE ve + (p - before) - 1
    IN [k \in 1..(ve - vs) |-> <<vs + k - 1, TRUE>>]
       \o [p \in 1..(before + after) |-> <<outside(p), FALSE>>]

\* C22: for a file list of length n and viewport 0 <= vs <= ve <= n, the
\* visitation order is the indices vs..ve-1 in increasing order (marked
\* in-viewport), followed by the alternation vs-1, ve, vs-2, ve+1, ... (the
\* before side first) until both sides are exhausted; for n=10, vs=4, ve=6
\* the order is 4,5,3,6,2,7,1,8,0,9.
C22_PriorityOrder ==
    calc.op = "priority_order"
    /\ calc.viewport_start <= calc.viewport_end /\ calc.viewport_end <= calc.n =>
        /\ calc.ret = ClaimedOrder(calc.n, calc.viewport_start, calc.viewport_end)
        /\ (calc.n = 10 /\ calc.viewport_start = 4 /\ calc.viewport_end = 6 =>
               [i \in 1..10 |-> calc.ret[i][1]] = <<4, 5, 3, 6, 2, 7, 1, 8, 0, 9>>)

\* the order has been computed for 10 files with the viewport 4..5
C22_Witness ==
    /\ calc.op = "priority_order"
    /\ calc.n = 10 /\ calc.viewport_start = 4 /\ calc.viewport_end = 6

\* C28: for the Micro and Preview tiers, generate re-encodes the resized
\* image at the tier's own quality value (80 for Micro, 85 for Preview): the
\* quality the encoder actually uses equals tier.quality for every input.
C28_TierQuality ==
    calc.op = "resize_and_encode" =>
        /\ calc.ret.ok
        /\ OkValue(calc.ret).quality = jpeg_quality(calc.tier)
        /\ jpeg_quality("micro") = 80 /\ jpeg_quality("preview") = 85

\* the image of a resize_image call needs resizing at its tier
NeedsResize ==
    /\ max_dimension(calc.tier) # None
    /\ Max(calc.width, calc.height) > Unwrap(max_dimension(calc.tier))
\* the bound, the longer and the shorter edge of the image and of the result
Bound == Unwrap(max_dimension(calc.tier))
LongIn == Max(calc.width, calc.height)
ShortIn == Min(calc.width, calc.height)
LongOut == Max(calc.ret.width, calc.ret.height)
ShortOut == Min(calc.ret.width, calc.ret.height)
Unchanged == calc.ret = [width |-> calc.width, height |-> calc.height]

\* C29 as stated: a resized image has long edge exactly d, the other edge
\* scaled by the same ratio (rounded) and at least 1 pixel.
C29_Original ==
    calc.op = "resize_image" =>
        IF NeedsResize
        THEN /\ LongOut = Bound
             /\ ShortOut >= 1
             /\ ShortOut \in {round_f64(ShortIn * Bound, LongIn, TRUE),
                              round_f64(ShortIn * Bound, LongIn, FALSE)}
             /\ (calc.width >= calc.height <=> calc.ret.width >= calc.ret.height)
        ELSE Unchanged

\* C29 (amended): an image within the bound, and every Loupe image, is
\* returned unchanged; otherwise the result is no larger than the image on
\* either edge, has long edge at most d (exactly d when the short edge was
\* not rounded down), each edge at least 1 pixel, and both edges scaled by one
\* ratio up to rounding; 1000x800 at Micro gives 300x240.
C29_ResizeFits ==
    calc.op = "resize_image" =>
        IF NeedsResize
        THEN /\ LongOut <= Bound
             /\ calc.ret.width >= 1 /\ calc.ret.height >= 1
             /\ calc.ret.width <= calc.width /\ calc.ret.height <= calc.height
             /\ (ShortIn * Bound) % LongIn = 0 => LongOut = Bound
             /\ LET skew == calc.ret.width * calc.height
                            - calc.ret.height * calc.width
                IN skew <= calc.width + calc.height
                   /\ -skew <= calc.width + calc.height
             /\ (calc.width = 1000 /\ calc.height = 800 /\ calc.tier = "micro" =>
                    calc.ret = [width |-> 300, height |-> 240])
        ELSE Unchanged

\* an image of 1000x401 has been resized at Micro: the short edge 120.3 is
\* rounded down
C29_Witness ==
    /\ calc.op = "resize_image"
    /\ calc.width = 1000 /\ calc.height = 401 /\ calc.tier = "micro"

(***************************************************************************)
(* Properties of a prefetch job of two chunks (checked under SpecChunks    *)
(* and SpecChunksFair unless said).                                        *)
(***************************************************************************)
\* the counts of job j's progress record are those it had when the flag was set
CountsAsAtCancel(j) ==
    /\ jobs[j].progress.completed_files = Unwrap(jobs[j].at_cancel).completed_files
    /\ jobs[j].progress.failed_files = Unwrap(jobs[j].at_cancel).failed_files
    /\ jobs[j].progress.viewport_completed =
           Unwrap(jobs[j].at_cancel).viewport_completed

\* C24 as stated: when a worker has left its chunk loop and returned, its
\* progress record is finished; if the job was cancelled, is_cancelled is
\* true and the three counts are those of the moment the flag was set.
C24_Original ==
    \A j \in 1..Len(jobs) :
        jobs[j].pc = "returned" =>
            /\ jobs[j].progress.is_finished
            /\ jobs[j].cancel_flag =>
                  jobs[j].progress.is_cancelled /\ CountsAsAtCancel(j)

\* C24 (amended): the progress record of a returned worker is finished; if
\* the job was cancelled, is_cancelled is true, no count is below its value
\* at the point of cancellation, and completed_files + failed_files has grown
\* by no more than the items that were in flight at that point.
C24_FinishedProgress ==
    \A j \in 1..Len(jobs) :
        jobs[j].pc = "returned" =>
            /\ jobs[j].progress.is_finished
            /\ jobs[j].cancel_flag =>
                  LET then == Unwrap(jobs[j].at_cancel)
                      now == jobs[j].progress
                  IN /\ now.is_cancelled
                     /\ now.completed_files >= then.completed_files
                     /\ now.failed_files >= then.failed_files
                     /\ now.viewport_completed >= then.viewport_completed
                     /\ now.completed_files + now.failed_files
                           <= then.completed_files + then.failed_files
                              + then.in_flight

\* a cancelled worker has returned after an item that was in flight when the
\* flag was set had been counted
C24_Witness ==
    \E j \in 1..Len(jobs) :
        /\ jobs[j].pc = "returned"
        /\ jobs[j].cancel_flag
        /\ Unwrap(jobs[j].at_cancel).in_flight > 0
        /\ jobs[j].progress.completed_files
              > Unwrap(jobs[j].at_cancel).completed_files

\* the files of job j that get_or_generate fails for
FailingFiles(j) ==
    {i \in 1..Len(jobs[j].job.file_paths) :
        ~path_exists(jobs[j].job.file_paths[i])}

C26_CancelReturns ==
    /\ [][\A j \in 1..Len(jobs) :
            jobs[j].cancel_flag => jobs'[j].handed = jobs[j].handed]_vars
    /\ \A t \in Callers : (callers[t].pc # "idle") ~> (callers[t].pc = "idle")

\* a thread waits in the join of cancel_current_job while the worker is
\* inside a chunk, and the other thread waits for the lock of the job slot
C26_Witness ==
    \E t, u \in Callers :
        /\ callers[t].pc = "c_join"
        /\ jobs[callers[t].taken].pc = "items"
        /\ callers[u].pc \in {"c_lock", "sp_cancel", "sp_store"}

(***************************************************************************)
(* Properties of the cache key (checked under SpecCalc).                   *)
(***************************************************************************)
\* the file a spelling names (two spellings of one file name the same)
SameFile(path1, path2) ==
    \/ path1 = path2
    \/ {path1, path2} = {"a.raw", "./a.raw"}

\* C27: the key of a file has 32 characters and is a function of the file
\* named (whatever the spelling), its size in bytes and its modification
\* time in whole milliseconds only: two derivations return the same key when
\* these three are the same, and different keys when the file, the size or
\* the millisecond of the modification time differs.
C27_KeyDeterminism ==
    calc.op = "generate_cache_key" =>
        /\ calc.first.ret.len = 32
        /\ calc.second.ret.len = 32
        /\ calc.first.ret = calc.second.ret
              <=> /\ SameFile(calc.first.path, calc.second.path)
                  /\ calc.first.metadata.len = calc.second.metadata.len
                  /\ calc.first.metadata.modified \div 1000
                        = calc.second.metadata.modified \div 1000

\* two spellings of one unmodified file were given the same key
C27_Witness ==
    /\ calc.op = "generate_cache_key"
    /\ calc.first.path # calc.second.path
    /\ calc.first.metadata = calc.second.metadata
    /\ calc.first.ret = calc.second.ret

(***************************************************************************)
(* Properties of a get_or_generate racing with clear_all (checked under    *)
(* SpecRace).                                                              *)
(***************************************************************************)
\* the later call returned the thumbnail of the path at its tier
LaterCorrect ==
    LET l == Unwrap(race.later)
    IN /\ l.ret.ok
       /\ l.ret = generate_thumbnail(race.reader.path, l.tier)

\* C30: when clear_all interleaves with an in-flight get_or_generate, the
\* state after both finish may have the key in memory with its disk file
\* absent, or the disk file present with the memory entry absent, and a
\* later get_or_generate for the same path succeeds and returns the correct
\* bytes.
C30_BestEffortRace ==
    IsSome(race.later) => LaterCorrect

\* a later get_or_generate at the tier of the call that was in flight
\* succeeds and returns the correct bytes
RaceSameTierRecovers ==
    (IsSome(race.later) /\ Unwrap(race.later).tier = race.reader.tier)
        => LaterCorrect

\* the key was left in memory without its disk file, and the later call at
\* the same tier returned the correct bytes
RaceMemoryOnly ==
    /\ IsSome(race.later)
    /\ Unwrap(race.later).tier = race.reader.tier
    /\ Unwrap(race.later).had_memory /\ ~Unwrap(race.later).had_disk
    /\ LaterCorrect

\* the disk file was left without the memory entry
RaceDiskOnly ==
    /\ IsSome(race.later)
    /\ Unwrap(race.later).tier = race.reader.tier
    /\ ~Unwrap(race.later).had_memory /\ Unwrap(race.later).had_disk
    /\ LaterCorrect

(***************************************************************************)
(* Properties of an LruCache shared by threads (checked under SpecLocked). *)
(***************************************************************************)
\* what the call of thread th does to the cache c when it runs alone
AtomicCall(th, c) ==
    CASE th.op = "insert" ->
            [c |-> LruCache_insert(c, th.key, <<1, 2, 3>>, th.byte_size),
             ret |-> None]
      [] th.op = "get" ->
            [c |-> LruCache_get(c, th.key).c,
             ret |-> Some(LruCache_get(c, th.key).ret)]
      [] th.op = "clear" -> [c |-> LruCache_clear(c), ret |-> None]
      [] th.op = "len" -> [c |-> c, ret |-> Some(len(c))]
      [] OTHER -> [c |-> c, ret |-> Some(total_bytes(c))]

\* C31: operations on one LruCache are linearized by its lock: a call that
\* is about to return has had the effect and the result of the call run alone
\* on the cache it found, and whenever no call is inside the cache (the
\* states a thread can observe) total_bytes is the sum of the retained sizes
\* and every eviction of an insertion has been made.
C31_Linearized ==
    /\ \A t \in LockThreads :
          race.threads[t].pc = "unlock" =>
              LET th == race.threads[t]
                  alone == AtomicCall(th, Unwrap(th.before))
              IN cache = alone.c /\ th.ret = alone.ret
    /\ race.lock = None =>
          /\ total_bytes(cache) = SumSizes(cache.data)
          /\ total_bytes(cache) <= max_bytes(cache)
    /\ \A t \in LockThreads :
          race.threads[t].pc = "unlock"
              /\ race.threads[t].op = "total_bytes" =>
                  /\ Unwrap(race.threads[t].ret) <= max_bytes(cache)
                  /\ Unwrap(race.threads[t].ret) = SumSizes(cache.data)

\* an insertion is between its map insert and its evictions, two entries
\* being over the budget, while the other thread waits to read total_bytes
C31_Witness ==
    \E t, u \in LockThreads :
        /\ race.threads[t].pc = "evict"
        /\ total_bytes(cache) > max_bytes(cache) + 5
        /\ race.threads[u].pc = "lock"
        /\ race.threads[u].op = "total_bytes"

(***************************************************************************)
(* Properties of the access counter and of the eviction order (checked     *)
(* under SpecLru).                                                         *)
(***************************************************************************)
\* the step is an insert or a get that found its key
AdvancingCall ==
    \/ last'.op = "insert"
    \/ last'.op = "get" /\ IsSome(last'.ret)

\* C32 as stated: over get, insert and clear the access_counter never
\* decreases, and every successful get and every insert strictly increases
\* it.
C32_Original ==
    [][/\ cache'.access_counter >= cache.access_counter
       /\ AdvancingCall => cache'.access_counter > cache.access_counter]_vars

\* C32 as amended: over get and insert the access_counter never decreases,
\* every successful get and every insert increases it by one, a get that
\* misses leaves it, and clear resets it to 0 together with the entries.
C32_CounterMonotonic ==
    [][/\ last'.op # "clear" =>
              cache'.access_counter >= cache.access_counter
       /\ AdvancingCall =>
              cache'.access_counter = cache.access_counter + 1
       /\ (last'.op = "get" /\ ~IsSome(last'.ret)) => cache' = cache
       /\ last'.op = "clear" =>
              cache'.access_counter = 0 /\ DOMAIN cache'.data = {}]_vars

\* a get has found its key after the counter had advanced
C32_Witness ==
    /\ last.op = "get" /\ IsSome(last.ret)
    /\ cache.access_counter >= 2
    /\ cache.data[last.key].access_time = cache.access_counter

\* lru.rs:106-117: the map of an insert before its eviction loop
PutData(c, call) ==
    MapInsert(c.data, call.key,
              [value |-> call.value, byte_size |-> call.byte_size,
               access_time |-> c.access_counter + 1])

\* the keys an insert has removed, c being the cache before and d the cache
\* after it
EvictedKeys(c, call, d) == DOMAIN PutData(c, call) \ DOMAIN d.data

\* C33: eviction follows recency and is minimal: the entries an insert
\* evicts all have lower access ordinals than the entries it retains (so the
\* entry just inserted goes only when every other entry has gone), the
\* retained entries are untouched, and putting back the last entry evicted
\* would exceed max_bytes: eviction stopped at the first point where
\* total_bytes <= max_bytes.
C33_EvictionOrder ==
    [][last'.op = "insert" =>
          LET put     == PutData(cache, last')
              evicted == EvictedKeys(cache, last', cache')
              kept    == DOMAIN cache'.data
          IN /\ kept \subseteq DOMAIN put
             /\ \A k \in kept : cache'.data[k] = put[k]
             /\ \A e \in evicted : \A k \in kept :
                    put[e].access_time < put[k].access_time
             /\ \A e \in evicted :
                    (\A f \in evicted :
                        put[f].access_time <= put[e].access_time) =>
                            cache'.total_bytes + put[e].byte_size
                                > cache'.max_bytes
             /\ last'.key \in evicted => kept = {}
             /\ cache'.total_bytes <= cache'.max_bytes]_vars

\* the recency scenario on a budget of 15: B, C and A (read after B and C
\* were inserted) have been evicted in that order and D is retained
C33_Witness ==
    /\ scen = "ABCaD" /\ max_bytes(cache) = 15
    /\ DOMAIN cache.data = {"D"}
    /\ total_bytes(cache) = 15

\* the entries of the map data have pairwise distinct access ordinals
DistinctOrdinals(data) ==
    \A k, j \in DOMAIN data :
        k # j => data[k].access_time # data[j].access_time

\* the calls of insert that SpecLru makes
LruInsertCalls == [key : LruKeys, value : LruValues, byte_size : LruSizes]

\* C35: in every reachable state of an LruCache the retained entries have
\* pairwise distinct access ordinals between 1 and access_counter (also after
\* a clear has reset the counter), and so has the map of any insert before
\* its eviction loop: at every turn of the loop the entry with the least
\* ordinal is unique, whatever the iteration order of the map.
C35_DistinctOrdinals ==
    /\ DistinctOrdinals(cache.data)
    /\ \A k \in DOMAIN cache.data :
          /\ cache.data[k].access_time >= 1
          /\ cache.data[k].access_time <= cache.access_counter
    /\ DOMAIN cache.data # {} => Cardinality(OldestKeys(cache)) = 1
    /\ \A call \in LruInsertCalls :
          LET put == [cache EXCEPT !.data = PutData(cache, call)]
          IN DistinctOrdinals(put.data) /\ Cardinality(OldestKeys(put)) = 1

\* two entries were inserted and the first was read: the entry inserted last
\* is now the one with the least ordinal
C35_Witness ==
    /\ largest > 0
    /\ last.op = "get" /\ IsSome(last.ret)
    /\ cache.access_counter = 3
    /\ Cardinality(DOMAIN cache.data) = 2
    /\ cache.data[last.key].access_time = 3
    /\ \E k \in DOMAIN cache.data : cache.data[k].access_time = 2

(***************************************************************************)
(* Properties of the worker's chunks and counters (checked under           *)
(* SpecChunks).                                                            *)
(***************************************************************************)
\* the items of job j that have passed the flag check and have not yet
\* copied their result: their get_or_generate call is in flight
InFlight(j) ==
    {i \in 1..Len(jobs[j].items) : jobs[j].items[i] \in {"calling", "update"}}

\* the items of the current chunk of job j whose call has returned, at most
ReturnedInChunk(j) ==
    {i \in 1..Len(jobs[j].items) : jobs[j].items[i] \in {"update", "done"}}

\* C34: the worker processes chunks of at most 4 items one after another:
\* at most 4 calls of get_or_generate of a job are in flight, the items in
\* hand are those of one chunk of the priority order, and while the items of
\* chunk k are in hand every item of the chunks before k has made its call
\* and returned from it.
C34_ChunksInTurn ==
    \A j \in 1..Len(jobs) :
        /\ Cardinality(InFlight(j)) <= 4
        /\ Len(jobs[j].items) <= 4
        /\ jobs[j].pc = "items" =>
              /\ jobs[j].chunk \in 1..chunk_count(jobs[j].order)
              /\ Len(jobs[j].items)
                     = Len(chunk_of(jobs[j].order, jobs[j].chunk))
              /\ jobs[j].calls >= 4 * (jobs[j].chunk - 1)
              /\ jobs[j].calls
                     <= 4 * (jobs[j].chunk - 1) + Cardinality(ReturnedInChunk(j))
              /\ jobs[j].handed = 4 * (jobs[j].chunk - 1) + Len(jobs[j].items)
        /\ jobs[j].pc # "items" => jobs[j].items = <<>>

\* the item of the second chunk is about to call get_or_generate after the
\* four items of the first chunk have returned
C34_Witness ==
    \E j \in 1..Len(jobs) :
        /\ jobs[j].pc = "items" /\ jobs[j].chunk = 2
        /\ jobs[j].items = <<"calling">>
        /\ jobs[j].calls = 4

(***************************************************************************)
(* Properties of the visitation order for any viewport (checked under      *)
(* SpecCalc).                                                              *)
(***************************************************************************)
\* the number of times the index x occurs in the order
Occurrences(order, x) ==
    Cardinality({i \in 1..Len(order) : order[i][1] = x})

\* C36: whatever viewport_start and viewport_end are (viewport_start >
\* viewport_end and values beyond the list length included), the visitation
\* order contains every index 0..len-1 exactly once.
C36_EveryIndexOnce ==
    calc.op = "priority_order" =>
        \A x \in 0..(calc.n - 1) : Occurrences(calc.ret, x) = 1

(***************************************************************************)
(* Properties of the progress record for any viewport (checked under       *)
(* SpecViewports).                                                         *)
(***************************************************************************)
\* the counters of a progress record never go down in a step
CountersGrow(j) ==
    /\ jobs'[j].progress.completed_files >= jobs[j].progress.completed_files
    /\ jobs'[j].progress.failed_files >= jobs[j].progress.failed_files
    /\ jobs'[j].progress.total_files >= jobs[j].progress.total_files

\* completed_files + failed_files of job j is within total_files, and equal
\* to it once the worker has returned without cancellation
CountsWithinTotal(j) ==
    LET p == jobs[j].progress
    IN /\ p.completed_files + p.failed_files <= p.total_files
       /\ (jobs[j].pc = "returned" /\ ~jobs[j].cancel_flag) =>
              p.completed_files + p.failed_files = p.total_files

\* C37: in every reachable state of a job's progress record completed_files
\* + failed_files <= total_files, each of the three counters is
\* non-decreasing over successive snapshots of the same job, and a job that
\* finishes without cancellation ends with completed_files + failed_files =
\* total_files.
C37_ProgressCounts ==
    /\ [](\A j \in 1..Len(jobs) : CountsWithinTotal(j))
    /\ [][\A j \in 1..Len(jobs) : CountersGrow(j)]_vars

\* the items of job j that the worker treats as in-viewport
InViewport(j) == {i \in 1..Len(jobs[j].order) : jobs[j].order[i][2]}

\* C38: viewport_total of a job is the number of items the worker treats as
\* in-viewport, so viewport_completed <= viewport_total in every state, and
\* a job that has finished without cancellation and without failures has
\* viewport_completed = viewport_total.
C38_ViewportTotal ==
    \A j \in 1..Len(jobs) :
        LET p == jobs[j].progress
        IN /\ p.viewport_total = Cardinality(InViewport(j))
           /\ p.viewport_completed <= p.viewport_total
           /\ (jobs[j].pc = "returned" /\ ~jobs[j].cancel_flag
                   /\ p.failed_files = 0) =>
                  p.viewport_completed = p.viewport_total

(***************************************************************************)
(* Properties of a failed disk write (checked under Spec).                 *)
(***************************************************************************)
\* C39: store is all-or-nothing across the two tiers: when get_or_generate
\* returns an error because the disk write in store failed, neither the
\* memory cache nor the disk directory of the tier holds the key afterwards,
\* and the cache is as it was before the call.
C39_AllOrNothing ==
    [][(/\ done'.op = "get_or_generate"
        /\ ~done'.ret.ok
        /\ done'.ret.err = "io: write") =>
          /\ KeyOf(done'.path) \notin DOMAIN mem'[done'.tier].data
          /\ KeyOf(done'.path) \notin DOMAIN disk'[done'.tier]
          /\ mem' = mem
          /\ disk' = disk
    ]_vars

(***************************************************************************)
(* Properties of two concurrent get_or_generate calls (checked under       *)
(* SpecPair).                                                              *)
(***************************************************************************)
\* C40: for any interleaving of two concurrent get_or_generate calls on the
\* same uncached path and tier, both calls succeed with identical bytes, and
\* afterwards the tier's memory cache holds exactly one entry for the key,
\* its size counted once in total_bytes, and the disk holds one file with
\* the same bytes.
C40_ConcurrentCalls ==
    LET d == race.readers["demand"]
        w == race.readers["worker"]
    IN (/\ d.pc = "returned" /\ w.pc = "returned"
        /\ d.path = w.path /\ d.tier = w.tier) =>
          /\ d.ret.ok /\ w.ret.ok
          /\ d.ret = w.ret
          /\ DOMAIN mem[d.tier].data = {d.file_hash}
          /\ mem[d.tier].data[d.file_hash].value = OkValue(d.ret)
          /\ total_bytes(mem[d.tier]) = Len(OkValue(d.ret))
          /\ DOMAIN disk[d.tier] = {d.file_hash}
          /\ disk[d.tier][d.file_hash] = OkValue(d.ret)

====
